---- MODULE Spec2Model ----
(***************************************************************************)
(* A model of the Century21 listing scraper                                *)
(* (app/integrations/century21/data_scraper.py).                           *)
(*                                                                         *)
(* The module holds several specifications over one set of variables:      *)
(*   SpecRun      Century21RobustScraper.run / fetch_and_parse / main:     *)
(*                the concurrent fetch units, the semaphore, the gather.   *)
(*   SpecRunFair  SpecRun with the scheduling of the event loop, for the   *)
(*                properties that say something eventually happens.        *)
(*   SpecDetails  _parse_details_and_features: one step per detail cell,   *)
(*                then the narrative and bare-amenity consolidation.       *)
(*   SpecSeg      _parse_description_heuristics: one step per line, then   *)
(*                the post-pass.                                           *)
(*   Spec         parse_property_html: the merge stages in order, then     *)
(*                the consolidation steps.                                 *)
(*   SpecUtil     the helper functions, each applied to one argument.      *)
(*   SpecWorkers  parse_property_html invoked on several workers that      *)
(*                share one scraper object.                                *)
(* A specification leaves the variables of the others at their initial     *)
(* values.                                                                 *)
(*                                                                         *)
(* Texts are sequences of one-character strings, so that joining,          *)
(* searching, trimming, case folding and ordering are computed and not     *)
(* assumed.  Letters outside ASCII are written without their accent       *)
(* ("ano_de_construccion", "m2_terreno").                                  *)
(***************************************************************************)
EXTENDS Integers, Sequences, FiniteSets, TLC

VARIABLES
    \* ---- run / fetch_and_parse / main
    urls,        \* the input list of run(urls)
    limit,       \* self.concurrency_limit
    permits,     \* free permits of self.semaphore
    pc,          \* position of each fetch_and_parse unit
    page,        \* the page of each unit: "none", "open", "closed"
    events,      \* per unit: what its browser operations did (history)
    pending,     \* per unit: the value its return statement holds
    gathered,    \* asyncio.gather's result slots
    overtook,    \* some unit returned before a unit earlier in the list
    runState,    \* "gathering", "returned", "raised", "filtered"
    results,     \* the list run returned
    successful,  \* main's successful_data
    \* ---- _parse_details_and_features
    dItems,      \* items: the detail cells in document order
    dDone,       \* the number of cells the loop has processed
    dState,      \* the locals data, amenities, amenities_description_parts
    dResult,     \* the dict returned
    dPhase,      \* "cells", "returned"
    \* ---- _parse_description_heuristics
    sRaw,        \* description_raw
    sLines,      \* lines
    sDone,       \* the number of lines the loop has processed
    sState,      \* the locals data, current_section, caracteristicas_adicionales
    sResult,     \* the dict returned
    sPhase,      \* "start", "lines", "returned"
    \* ---- parse_property_html
    pPage,       \* the parts of the page the parser reads
    pData,       \* data
    pFinal,      \* final_data
    pIdx,        \* the number of items of data the rename loop has processed
    pRecord,     \* the dict returned
    pAgain,      \* the consolidation steps applied to the dict returned
    pPhase,      \* the statement the parser is at
    \* ---- the helper functions, applied to one argument
    uFn,         \* the function applied
    uArg,        \* its argument
    uRef,        \* self.current_year
    uOut,        \* what it returned
    uPhase,      \* "ready", "done"
    \* ---- parse_property_html called on several workers
    scraper,     \* the scraper object: concurrency_limit, semaphore, current_year
    wPage,       \* per worker: the page its invocation parses
    wData,       \* per worker: the local dict data
    wPc,         \* per worker: "idle", "merge", "consolidate", "returned"
    wOut         \* per worker: what its invocation returned

runVars == <<urls, limit, permits, pc, page, events, pending, gathered,
             overtook, runState, results, successful>>

detailVars == <<dItems, dDone, dState, dResult, dPhase>>

segVars == <<sRaw, sLines, sDone, sState, sResult, sPhase>>

parseVars == <<pPage, pData, pFinal, pIdx, pRecord, pAgain, pPhase>>

utilVars == <<uFn, uArg, uRef, uOut, uPhase>>

workerVars == <<scraper, wPage, wData, wPc, wOut>>

vars == <<runVars, detailVars, segVars, parseVars, utilVars, workerVars>>

\* What the actions of one component leave alone.
notRunVars == <<detailVars, segVars, parseVars, utilVars, workerVars>>
notDetailVars == <<runVars, segVars, parseVars, utilVars, workerVars>>
notSegVars == <<runVars, detailVars, parseVars, utilVars, workerVars>>
notParseVars == <<runVars, detailVars, segVars, utilVars, workerVars>>
notUtilVars == <<runVars, detailVars, segVars, parseVars, workerVars>>
notWorkerVars == <<runVars, detailVars, segVars, parseVars, utilVars>>

-----------------------------------------------------------------------------
(* Generic helpers *)

Range(s) == {s[i] : i \in 1..Len(s)}

\* The greatest and the least element of a non-empty set of integers.
Max(S) == CHOOSE x \in S : \A y \in S : y <= x
Min(S) == CHOOSE x \in S : \A y \in S : x <= y

-----------------------------------------------------------------------------
(* Texts.  A text (Python str) is a sequence of characters; a character is *)
(* a one-character string, "\t", "\n", or ZWSP, which stands for the       *)
(* invisible characters U+200B-U+200D, U+2060 and U+FEFF.  Accented        *)
(* letters and the superscript two of the source are written without       *)
(* their marks ("ano_de_construccion", "m2_terreno").                      *)

ZWSP == "ZWSP"

\* The printable ASCII characters in code order, from the space (32) on
\* (the quote, the backslash and the grave accent are written as words).
Ascii == <<
    " ", "!", "QUOTE", "#", "$", "%", "&", "'", "(", ")", "*", "+",
    ",", "-", ".", "/", "0", "1", "2", "3", "4", "5", "6", "7",
    "8", "9", ":", ";", "<", "=", ">", "?", "@", "A", "B", "C",
    "D", "E", "F", "G", "H", "I", "J", "K", "L", "M", "N", "O",
    "P", "Q", "R", "S", "T", "U", "V", "W", "X", "Y", "Z", "[",
    "BACKSLASH", "]", "^", "_", "GRAVE", "a", "b", "c", "d", "e", "f", "g",
    "h", "i", "j", "k", "l", "m", "n", "o", "p", "q", "r", "s",
    "t", "u", "v", "w", "x", "y", "z", "{", "|", "}", "~" >>

\* ord(c) for the printable ASCII characters
AsciiCode == [c \in Range(Ascii) |-> 31 + (CHOOSE k \in 1..Len(Ascii) : Ascii[k] = c)]

\* ord(c)
Code(c) ==
    CASE c = "\t" -> 9
      [] c = "\n" -> 10
      [] c = ZWSP -> 8203
      [] c = "BULLET" -> 8226
      [] OTHER -> AsciiCode[c]

\* chr(n), for a printable ASCII code
Chr(n) == Ascii[n - 31]

\* what the regular expression class \s matches
IsSpace(c) == c \in {" ", "\t", "\n"}

\* what \d matches
Digits == {"0", "1", "2", "3", "4", "5", "6", "7", "8", "9"}
IsDigit(c) == c \in Digits

\* what \w matches
WordChars ==
    {c \in Range(Ascii) :
        \/ c \in Digits
        \/ c = "_"
        \/ (AsciiCode[c] >= 65 /\ AsciiCode[c] <= 90)
        \/ (AsciiCode[c] >= 97 /\ AsciiCode[c] <= 122)}
IsWordChar(c) == c \in WordChars

\* c.lower() and c.upper() of the printable ASCII characters
LowerTable ==
    [c \in Range(Ascii) |->
        IF AsciiCode[c] >= 65 /\ AsciiCode[c] <= 90
        THEN Chr(AsciiCode[c] + 32) ELSE c]
UpperTable ==
    [c \in Range(Ascii) |->
        IF AsciiCode[c] >= 97 /\ AsciiCode[c] <= 122
        THEN Chr(AsciiCode[c] - 32) ELSE c]
LowerChar(c) == IF c \in DOMAIN LowerTable THEN LowerTable[c] ELSE c
UpperChar(c) == IF c \in DOMAIN UpperTable THEN UpperTable[c] ELSE c

\* str.lower()
Lower(s) == [i \in 1..Len(s) |-> LowerChar(s[i])]

\* str.capitalize(): the first character upper case, the rest lower case
Capitalize(s) ==
    [i \in 1..Len(s) |-> IF i = 1 THEN UpperChar(s[i]) ELSE LowerChar(s[i])]

\* str.replace(old, new) for single characters
ReplaceChar(s, old, new) == [i \in 1..Len(s) |-> IF s[i] = old THEN new ELSE s[i]]

\* the text s[from..to] (1-based, inclusive), empty when from > to
Slice(s, from, to) == IF from > to THEN <<>> ELSE SubSeq(s, from, to)

\* does sub occur in s at position i
OccursAt(sub, s, i) ==
    /\ i >= 1
    /\ i + Len(sub) - 1 <= Len(s)
    /\ \A k \in 1..Len(sub) : s[i + k - 1] = sub[k]

\* `sub in s`
Contains(s, sub) == \E i \in 1..(Len(s) + 1) : OccursAt(sub, s, i)

\* str.find / str.rfind, 1-based; 0 when sub does not occur
Find(s, sub) ==
    IF Contains(s, sub)
    THEN Min({i \in 1..(Len(s) + 1) : OccursAt(sub, s, i)}) ELSE 0
RFind(s, sub) ==
    IF Contains(s, sub)
    THEN Max({i \in 1..(Len(s) + 1) : OccursAt(sub, s, i)}) ELSE 0

\* str.strip(): leading and trailing whitespace removed
Strip(s) ==
    LET keep == {i \in 1..Len(s) : ~IsSpace(s[i])}
    IN  IF keep = {} THEN <<>> ELSE SubSeq(s, Min(keep), Max(keep))

\* str.rstrip(':')
RECURSIVE RStripColon(_)
RStripColon(s) ==
    IF s # <<>> /\ s[Len(s)] = ":" THEN RStripColon(SubSeq(s, 1, Len(s) - 1))
    ELSE s

\* re.sub(r'[\u200b-\u200d\u2060\ufeff]', '', text)
RemoveInvisible(s) == SelectSeq(s, LAMBDA c : c # ZWSP)

\* re.sub(r'\s+', ' ', text)
RECURSIVE CollapseSpace(_)
CollapseSpace(s) ==
    IF s = <<>> THEN <<>>
    ELSE IF IsSpace(Head(s))
         THEN IF Len(s) > 1 /\ IsSpace(s[2])
              THEN CollapseSpace(Tail(s))
              ELSE <<" ">> \o CollapseSpace(Tail(s))
         ELSE <<Head(s)>> \o CollapseSpace(Tail(s))

\* _clean_text
CleanText(s) ==
    IF s = <<>> THEN <<>> ELSE Strip(CollapseSpace(RemoveInvisible(s)))

\* sep.join(parts)
RECURSIVE Join(_, _)
Join(sep, parts) ==
    IF parts = <<>> THEN <<>>
    ELSE IF Len(parts) = 1 THEN parts[1]
    ELSE parts[1] \o sep \o Join(sep, Tail(parts))

\* str.split(): the words of s, split at whitespace runs
RECURSIVE Words(_)
Words(s) ==
    LET t == Strip(s)
        ws == {i \in 1..Len(t) : IsSpace(t[i])}
    IN  IF t = <<>> THEN <<>>
        ELSE IF ws = {} THEN <<t>>
        ELSE <<SubSeq(t, 1, Min(ws) - 1)>> \o Words(SubSeq(t, Min(ws), Len(t)))

\* a < b in Python's ordering of str (by code point, a prefix first)
RECURSIVE StrLess(_, _)
StrLess(a, b) ==
    IF b = <<>> THEN FALSE
    ELSE IF a = <<>> THEN TRUE
    ELSE IF Head(a) = Head(b) THEN StrLess(Tail(a), Tail(b))
    ELSE Code(Head(a)) < Code(Head(b))

\* sorted(S) for a set of texts
RECURSIVE SortedTexts(_)
SortedTexts(S) ==
    IF S = {} THEN <<>>
    ELSE LET m == CHOOSE x \in S : \A y \in S \ {x} : StrLess(x, y)
         IN  <<m>> \o SortedTexts(S \ {m})

\* list(dict.fromkeys(parts)): duplicates removed, first-seen order kept
RECURSIVE Unique(_)
Unique(parts) ==
    IF parts = <<>> THEN <<>>
    ELSE LET init == Unique(SubSeq(parts, 1, Len(parts) - 1))
             last == parts[Len(parts)]
         IN  IF last \in Range(init) THEN init ELSE Append(init, last)

-----------------------------------------------------------------------------
(* Values and the insertion-ordered dict *)

\* A value of a record field.  t is its type: "null" (None), "num" (float),
\* "int", "str", "list" (of texts) or "map" (a dict of flags, l lists the
\* keys set to True).  A number float(m) is n, the integer its whole digits
\* denote, and s, its fraction digits without trailing zeros; an int is n.
VNull == [t |-> "null", n |-> 0, s |-> <<>>, l |-> <<>>]
VNum(n, frac) == [t |-> "num", n |-> n, s |-> frac, l |-> <<>>]
VInt(n) == [t |-> "int", n |-> n, s |-> <<>>, l |-> <<>>]
VStr(s) == [t |-> "str", n |-> 0, s |-> s, l |-> <<>>]
VList(l) == [t |-> "list", n |-> 0, s |-> <<>>, l |-> l]
VMap(l) == [t |-> "map", n |-> 0, s |-> <<>>, l |-> l]

\* A dict is the sequence of its items [k, v] in insertion order.
Keys(d) == {d[i].k : i \in 1..Len(d)}
Has(d, k) == k \in Keys(d)
IndexOf(d, k) == CHOOSE i \in 1..Len(d) : d[i].k = k
Get(d, k) == d[IndexOf(d, k)].v

\* d[k] = v: an existing key keeps its place
Put(d, k, v) ==
    IF Has(d, k) THEN [d EXCEPT ![IndexOf(d, k)] = [k |-> k, v |-> v]]
    ELSE Append(d, [k |-> k, v |-> v])

\* d.update(e)
RECURSIVE Update(_, _)
Update(d, e) ==
    IF e = <<>> THEN d ELSE Update(Put(d, e[1].k, e[1].v), Tail(e))

\* d without key k (d.pop(k) leaves this behind)
Without(d, k) == SelectSeq(d, LAMBDA it : it.k # k)

-----------------------------------------------------------------------------
(* _extract_number *)

\* int(digits)
RECURSIVE ToInt(_)
ToInt(digits) ==
    IF digits = <<>> THEN 0
    ELSE 10 * ToInt(SubSeq(digits, 1, Len(digits) - 1))
         + (Code(digits[Len(digits)]) - 48)

\* the longest run of digits of s that starts at position i
RECURSIVE DigitRun(_, _)
DigitRun(s, i) ==
    IF i <= Len(s) /\ IsDigit(s[i]) THEN <<s[i]>> \o DigitRun(s, i + 1)
    ELSE <<>>

RECURSIVE DropTrailingZeros(_)
DropTrailingZeros(digits) ==
    IF digits # <<>> /\ digits[Len(digits)] = "0"
    THEN DropTrailingZeros(SubSeq(digits, 1, Len(digits) - 1))
    ELSE digits

\* A number extraction that leaves the commas in the text.
ExtractNumberKeepingCommas(text) ==
    LET ds == {i \in 1..Len(text) : IsDigit(text[i])}
    IN  IF text = <<>> \/ ds = {} THEN VNull
        ELSE LET i == Min(ds)
                 whole == DigitRun(text, i)
                 j == i + Len(whole)
                 frac == IF j <= Len(text) /\ text[j] = "."
                         THEN DigitRun(text, j + 1) ELSE <<>>
             IN  VNum(ToInt(whole), DropTrailingZeros(frac))

\* _extract_number: None for an empty text or a text without a digit, else
\* float of the first match of (\d+\.?\d*) in the text without its commas.
ExtractNumber(text) ==
    LET t == SelectSeq(text, LAMBDA c : c # ",")
        ds == {i \in 1..Len(t) : IsDigit(t[i])}
    IN  IF text = <<>> \/ ds = {} THEN VNull
        ELSE LET i == Min(ds)
                 whole == DigitRun(t, i)
                 j == i + Len(whole)
                 frac == IF j <= Len(t) /\ t[j] = "."
                         THEN DigitRun(t, j + 1) ELSE <<>>
             IN  VNum(ToInt(whole), DropTrailingZeros(frac))

-----------------------------------------------------------------------------
(* _parse_details_and_features *)

\* Bound: the number of detail cells of a page.
MaxCells == 3

\* A detail cell is the sequence of its child nodes: t is "text" (a
\* NavigableString), "bold" (the span of class fw-bold) or "icon" (an i tag).
TextNode(s) == [t |-> "text", s |-> s]
BoldNode(s) == [t |-> "bold", s |-> s]
IconNode == [t |-> "icon", s |-> <<>>]

\* The cells the pages of the model are made of.
DetailCells ==
    { <<IconNode, TextNode(<<" ", "A", "l", "b", "e", "r", "c", "a", " ">>)>>,
      <<TextNode(<<"a", "l", "b", "e", "r", "c", "a">>)>>,
      <<TextNode(<<"R", "e", "c", ":", " ">>), BoldNode(<<"3">>)>>,
      <<TextNode(<<"V", "i", "s", "t", "a", ":", " ", "m", "a", "r", ",", " ", "r", "i", "o">>)>>,
      <<TextNode(<<"P", "r", "e", "c", "i", "o", " ", "d", "e", " ", "v", "e", "n", "t", "a", ":">>), BoldNode(<<"$", "1", ",", "5", "0", "0">>)>>,
      <<TextNode(<<"P", "r", "e", "c", "i", "o", " ", "d", "e", " ", "r", "e", "n", "t", "a", ":">>), BoldNode(<<"$", "9">>)>>,
      <<TextNode(<<"P", "r", "e", "c", "i", "o", " ", "m", "2", ":">>), BoldNode(<<"9", "0">>)>>,
      <<BoldNode(<<"2">>), TextNode(<<" ", "B", "a", "n", "o", "s">>)>>,
      <<TextNode(<<"A", "l", "b", "e", "r", "c", "a", ":">>), BoldNode(<<"S", "i">>)>>,
      <<TextNode(<<"A", "m", "e", "n", "i", "d", "a", "d", "e", "s", " ", "e", "s", "t", "r", "u", "c", "t", "u", "r", "a", "l", "e", "s">>)>>,
      <<IconNode>> }

\* item.find('span', class_='fw-bold'): the position of the first bold span,
\* 0 when the cell has none
BoldIndex(item) ==
    LET bs == {i \in 1..Len(item) : item[i].t = "bold"}
    IN  IF bs = {} THEN 0 ELSE Min(bs)

\* the concatenation of content.strip() + " " over the texts of nodes
RECURSIVE StrippedWithSpace(_)
StrippedWithSpace(nodes) ==
    IF nodes = <<>> THEN <<>>
    ELSE (IF Head(nodes).t = "text" THEN Strip(Head(nodes).s) \o <<" ">>
          ELSE <<>>) \o StrippedWithSpace(Tail(nodes))

\* item.get_text(separator=' ', strip=True): the non-empty stripped strings
\* of the cell, joined by a space
RECURSIVE StrippedStrings(_)
StrippedStrings(nodes) ==
    IF nodes = <<>> THEN <<>>
    ELSE (IF Strip(Head(nodes).s) # <<>> THEN <<Strip(Head(nodes).s)>>
          ELSE <<>>) \o StrippedStrings(Tail(nodes))
GetText(item) == Join(<<" ">>, StrippedStrings(item))

\* [content.strip() for the NavigableString contents of the cell]
RECURSIVE KeyTextParts(_)
KeyTextParts(nodes) ==
    IF nodes = <<>> THEN <<>>
    ELSE (IF Head(nodes).t = "text" THEN <<Strip(Head(nodes).s)>> ELSE <<>>)
         \o KeyTextParts(Tail(nodes))

\* Lines 134-162: the key_text and value_text of a cell.
ExtractCell(item) ==
    LET b == BoldIndex(item)
        value0 == IF b > 0 THEN CleanText(item[b].s) ELSE <<>>
        key0 == IF b > 0
                THEN Strip(RStripColon(CleanText(
                         StrippedWithSpace(SubSeq(item, 1, b - 1)))))
                ELSE <<>>
        text == CleanText(GetText(item))
        colon == Find(text, <<":">>)
    IN  IF key0 # <<>> THEN [key |-> key0, value |-> value0]
        ELSE IF colon > 0 /\ value0 = <<>>
             THEN [key |-> CleanText(Slice(text, 1, colon - 1)),
                   value |-> CleanText(Slice(text, colon + 1, Len(text)))]
        ELSE IF text # <<>>
             THEN [key |-> Strip(Join(<<" ">>, KeyTextParts(item))),
                   value |-> <<>>]
        ELSE [key |-> key0, value |-> value0]

\* key_text.lower().replace(' ', '_')
NormalizeKey(key) == ReplaceChar(Lower(key), " ", "_")

\* Lines 171-182: the narrative fragment of a cell, <<>> when it has none.
NarrativePart(key, value) ==
    LET kn == NormalizeKey(key)
        excluded == \/ Contains(kn, <<"p", "r", "e", "c", "i", "o">>)
                    \/ Contains(kn, <<"o", "p", "e", "r", "a", "c", "i", "o", "n">>)
                    \/ Contains(kn, <<"c", "u", "o", "t", "a">>)
    IN  IF excluded THEN <<>>
        ELSE IF value # <<>> THEN <<Lower(key) \o <<" ">> \o Lower(value)>>
        ELSE <<Lower(key)>>

\* A store that keeps the price keys as fields.
StoreValuedWithPrices(data, key, value) ==
    LET kn == NormalizeKey(key)
        numeric == ExtractNumber(value)
    IN  Put(data, kn, IF numeric # VNull THEN numeric ELSE VStr(value))

\* Lines 185-192: what a valued cell writes into data.
StoreValued(data, key, value) ==
    LET kn == NormalizeKey(key)
        numeric == ExtractNumber(value)
    IN  IF Contains(kn, <<"p", "r", "e", "c", "i", "o", "_", "d", "e", "_", "v", "e", "n", "t", "a">>)
        THEN Put(data, <<"o", "p", "e", "r", "a", "c", "i", "o", "n">>, VStr(<<"V", "e", "n", "t", "a">>))
        ELSE IF Contains(kn, <<"p", "r", "e", "c", "i", "o", "_", "d", "e", "_", "r", "e", "n", "t", "a">>)
        THEN Put(data, <<"o", "p", "e", "r", "a", "c", "i", "o", "n">>, VStr(<<"R", "e", "n", "t", "a">>))
        ELSE IF ~Contains(kn, <<"p", "r", "e", "c", "i", "o">>)
        THEN Put(data, kn, IF numeric # VNull THEN numeric ELSE VStr(value))
        ELSE data

\* The locals of _parse_details_and_features before the first cell.
DetailsStart == [data |-> <<>>, amenities |-> <<>>, parts |-> <<>>]

\* Lines 133-195: one iteration of the loop over the cells.
DetailStep(st, item) ==
    LET c == ExtractCell(item)
    IN  IF c.key = <<>> THEN st
        ELSE [data |-> IF c.value # <<>>
                       THEN StoreValued(st.data, c.key, c.value)
                       ELSE st.data,
              amenities |-> IF c.value # <<>> THEN st.amenities
                            ELSE Append(st.amenities, c.key),
              parts |-> st.parts \o NarrativePart(c.key, c.value)]

\* A join that puts " y " before the last fragment instead of searching the
\* joined text for its last ", ".
JoinNarrativeByFragment(unique) ==
    IF Len(unique) <= 1 THEN Join(<<",", " ">>, unique)
    ELSE Join(<<",", " ">>, SubSeq(unique, 1, Len(unique) - 1))
         \o <<" ", "y", " ">> \o unique[Len(unique)]

\* Lines 202-207: ", ".join(unique_parts) with its last ", " replaced by " y "
JoinNarrative(unique) ==
    LET text == Join(<<",", " ">>, unique)
        last == RFind(text, <<",", " ">>)
    IN  IF last > 0
        THEN Slice(text, 1, last - 1) \o <<" ", "y", " ">>
             \o Slice(text, last + 2, Len(text))
        ELSE text

NarrativePrefix == <<"L", "a", " ", "p", "r", "o", "p", "i", "e", "d", "a", "d", " ", "c", "u", "e", "n", "t", "a", " ", "c", "o", "n", " ">>

\* Lines 197-209
ConsolidateNarrative(data, parts) ==
    IF parts # <<>>
    THEN Put(data, <<"d", "e", "s", "c", "r", "i", "p", "c", "i", "o", "n", "_", "a", "m", "e", "n", "i", "d", "a", "d", "e", "s">>,
             VStr(NarrativePrefix \o JoinNarrative(Unique(parts))))
    ELSE data

\* A store that keeps every bare label.
StoreAmenitiesUnfiltered(data, amenities) ==
    IF amenities # <<>>
    THEN Put(data, <<"a", "m", "e", "n", "i", "d", "a", "d", "e", "s", "_", "e", "s", "t", "r", "u", "c", "t", "u", "r", "a", "l", "e", "s">>, VList(amenities))
    ELSE data

\* Lines 211-214: the bare amenities whose normalized key is no key of data
StoreAmenities(data, amenities) ==
    IF amenities # <<>>
    THEN Put(data, <<"a", "m", "e", "n", "i", "d", "a", "d", "e", "s", "_", "e", "s", "t", "r", "u", "c", "t", "u", "r", "a", "l", "e", "s">>,
             VList(SelectSeq(amenities,
                       LAMBDA a : ~Has(data, NormalizeKey(a)))))
    ELSE data

\* Lines 197-216: what _parse_details_and_features returns.
DetailsFinal(st) ==
    StoreAmenities(ConsolidateNarrative(st.data, st.parts), st.amenities)

RECURSIVE DetailsLoop(_, _)
DetailsLoop(st, items) ==
    IF items = <<>> THEN st
    ELSE DetailsLoop(DetailStep(st, Head(items)), Tail(items))

\* _parse_details_and_features as a function of the cells in document order
ParseDetailsAndFeatures(items) == DetailsFinal(DetailsLoop(DetailsStart, items))

InitDetails ==
    /\ dItems \in UNION {[1..n -> DetailCells] : n \in 0..MaxCells}
    /\ dDone = 0
    /\ dState = DetailsStart
    /\ dResult = <<>>
    /\ dPhase = "cells"

\* for item in items: (one iteration)
DetailCell ==
    /\ dPhase = "cells"
    /\ dDone < Len(dItems)
    /\ dState' = DetailStep(dState, dItems[dDone + 1])
    /\ dDone' = dDone + 1
    /\ UNCHANGED <<dItems, dResult, dPhase>>
    /\ UNCHANGED notDetailVars

\* the consolidation after the loop and the return
DetailsReturn ==
    /\ dPhase = "cells"
    /\ dDone = Len(dItems)
    /\ dResult' = DetailsFinal(dState)
    /\ dPhase' = "returned"
    /\ UNCHANGED <<dItems, dDone, dState>>
    /\ UNCHANGED notDetailVars

-----------------------------------------------------------------------------
(* _find_header and _parse_description_heuristics *)

\* Bound: the number of lines of a description.
MaxLines == 3

\* BULLET stands for the bullet character U+2022.
BULLET == "BULLET"

\* the class [\u2022*>-] of line 246
IsGlyph(c) == c \in {BULLET, "*", ">", "-"}

\* text.split('\n')
RECURSIVE SplitLines(_)
SplitLines(s) ==
    LET nl == {i \in 1..Len(s) : s[i] = "\n"}
    IN  IF nl = {} THEN <<s>>
        ELSE <<Slice(s, 1, Min(nl) - 1)>>
             \o SplitLines(Slice(s, Min(nl) + 1, Len(s)))

\* the number of whitespace characters of s from position i on
RECURSIVE SpaceRun(_, _)
SpaceRun(s, i) ==
    IF i <= Len(s) /\ IsSpace(s[i]) THEN 1 + SpaceRun(s, i + 1) ELSE 0

\* re.sub(r'(?<!^)\s*([\u2022*>-])', r'\n\1', s), scanning from position i
RECURSIVE BreakBeforeGlyphs(_, _)
BreakBeforeGlyphs(s, i) ==
    IF i > Len(s) THEN <<>>
    ELSE LET k == SpaceRun(s, i)
         IN  IF i > 1 /\ i + k <= Len(s) /\ IsGlyph(s[i + k])
             THEN <<"\n", s[i + k]>> \o BreakBeforeGlyphs(s, i + k + 1)
             ELSE <<s[i]>> \o BreakBeforeGlyphs(s, i + 1)

\* Lines 243-249: the lines the loop runs over.
DescriptionLines(description_raw) ==
    LET cleaned == RemoveInvisible(description_raw)
        single == /\ ~Contains(Strip(cleaned), <<"\n">>)
                  /\ \E i \in 1..Len(cleaned) : IsGlyph(cleaned[i])
    IN  SplitLines(IF single THEN BreakBeforeGlyphs(cleaned, 1) ELSE cleaned)

\* the section names of the second pattern of _find_header
KnownHeaders ==
    << <<"c", "e", "r", "c", "a", "n", "i", "a", "s">>, <<"p", "l", "a", "n", "t", "a", " ", "a", "l", "t", "a">>, <<"p", "l", "a", "n", "t", "a", " ", "b", "a", "j", "a">>, <<"e", "q", "u", "i", "p", "a", "m", "i", "e", "n", "t", "o">>,
       <<"d", "i", "s", "t", "r", "i", "b", "u", "c", "i", "o", "n">>, <<"s", "e", "r", "v", "i", "c", "i", "o", "s", " ", "e", "n", " ", "l", "a", " ", "z", "o", "n", "a">> >>

\* re.match(r'^(name1|name2|...)', text, re.IGNORECASE): the matched prefix
\* of text, <<>> when none of the names (tried in order) is a prefix
RECURSIVE MatchName(_, _)
MatchName(names, text) ==
    IF names = <<>> THEN <<>>
    ELSE IF OccursAt(Head(names), Lower(text), 1)
         THEN Slice(text, 1, Len(Head(names)))
         ELSE MatchName(Tail(names), text)

\* group(1) of re.match(r'^([\w\s]{2,40}?)\s*[:]?$', text): the shortest
\* prefix of 2 to 40 word or space characters after which only whitespace
\* and one optional colon follow; <<>> when the pattern does not match
LazyHeaderGroup(text) ==
    LET body == IF text # <<>> /\ text[Len(text)] = ":"
                THEN Slice(text, 1, Len(text) - 1) ELSE text
        fits == {n \in 2..Len(body) :
                    /\ n <= 40
                    /\ \A i \in 1..n : IsWordChar(body[i]) \/ IsSpace(body[i])
                    /\ \A i \in (n + 1)..Len(body) : IsSpace(body[i])}
    IN  IF fits = {} THEN <<>> ELSE Slice(body, 1, Min(fits))

\* _find_header: group(1) of the match, <<>> when the line is no header
FindHeader(text) ==
    LET text_cleaned == CleanText(text)
        g == LazyHeaderGroup(text_cleaned)
    IN  IF g # <<>> THEN g ELSE MatchName(KnownHeaders, text_cleaned)

\* Lines 271-279: the section a header line switches to
SectionOf(group) ==
    LET header_text == Strip(RStripColon(group))
    IN  IF MatchName(<<<<"c", "e", "r", "c", "a", "n", "i", "a", "s">>, <<"s", "e", "r", "v", "i", "c", "i", "o", "s", " ", "e", "n", " ", "l", "a", " ", "z", "o", "n", "a">>>>, header_text) # <<>>
        THEN <<"c", "e", "r", "c", "a", "n", "i", "a", "s">>
        ELSE IF MatchName(<<<<"e", "q", "u", "i", "p", "a", "m", "i", "e", "n", "t", "o">>>>, header_text) # <<>>
        THEN <<"e", "q", "u", "i", "p", "a", "m", "i", "e", "n", "t", "o">>
        ELSE ReplaceChar(Lower(CleanText(header_text)), " ", "_")

DefaultSection == <<"a", "m", "e", "n", "i", "d", "a", "d", "e", "s", "_", "e", "x", "t", "r", "a", "i", "d", "a", "s">>

\* Lines 256-263: the flags a line sets
KeywordFlags(line_cleaned) ==
    LET low == Lower(line_cleaned)
    IN  (IF \/ Contains(low, <<"*", "p", "r", "e", "c", "i", "o", " ", "a", " ", "t", "r", "a", "t", "a", "r", "*">>)
            \/ Contains(low, <<"p", "r", "e", "c", "i", "o", " ", "a", " ", "t", "r", "a", "t", "a", "r">>)
            \/ Contains(low, <<"p", "r", "e", "c", "i", "o", " ", "n", "e", "g", "o", "c", "i", "a", "b", "l", "e">>)
         THEN <<<<"p", "r", "e", "c", "i", "o", "_", "n", "e", "g", "o", "c", "i", "a", "b", "l", "e">>>> ELSE <<>>)
        \o (IF Contains(low, <<"n", "o", " ", "p", "a", "g", "a", " ", "m", "a", "n", "t", "e", "n", "i", "m", "i", "e", "n", "t", "o">>)
            THEN <<<<"n", "o", "_", "p", "a", "g", "a", "_", "m", "a", "n", "t", "e", "n", "i", "m", "i", "e", "n", "t", "o">>>> ELSE <<>>)

\* caracteristicas_adicionales[flag] = True for each flag, in order
RECURSIVE AddFlags(_, _)
AddFlags(flags, new) ==
    IF new = <<>> THEN flags
    ELSE AddFlags(IF Head(new) \in Range(flags) THEN flags
                  ELSE Append(flags, Head(new)), Tail(new))

\* re.sub(r'^[\u2022*>]', '-', line_stripped)
NormalizeBullet(line) ==
    IF line # <<>> /\ line[1] \in {BULLET, "*", ">"}
    THEN <<"-">> \o Tail(line) ELSE line

\* group(1) of re.match(r'^-\s*(.+)', line): <<>> when there is no match
ItemOf(line) ==
    IF line # <<>> /\ line[1] = "-" /\ Len(line) >= 2
    THEN LET k == SpaceRun(line, 2)
         IN  IF 2 + k <= Len(line) THEN Slice(line, 2 + k, Len(line))
             ELSE Slice(line, Len(line), Len(line))
    ELSE <<>>

\* may this line be emitted: the guard `not is_keyword_line`
MayEmitAlways(is_keyword_line) == TRUE
MayEmit(is_keyword_line) == ~is_keyword_line

\* A header that empties the list of the section it enters.
OpenSectionEmptied(data, section) == Put(data, section, <<>>)

\* A header that makes no list for the section it enters.
OpenSectionWithoutList(data, section) == data

\* Lines 281-282: if current_section not in data: data[current_section] = []
OpenSection(data, section) ==
    IF Has(data, section) THEN data ELSE Put(data, section, <<>>)

\* A loose-item test that does not look at the section.
IsLooseItemAnywhere(line_cleaned, current_section) ==
    Len(Words(line_cleaned)) < 15

\* Line 294: len(line_cleaned.split()) < 15 and
\* current_section != 'amenidades_extraidas'
IsLooseItem(line_cleaned, current_section) ==
    /\ Len(Words(line_cleaned)) < 15
    /\ current_section # DefaultSection

\* data[section].append(item)
AppendTo(data, section, item) ==
    Put(data, section, Append(Get(data, section), item))

\* The locals of _parse_description_heuristics before the first line.
SegStart ==
    [data |-> <<[k |-> DefaultSection, v |-> <<>>]>>,
     current_section |-> DefaultSection,
     flags |-> <<>>]

\* Lines 250-296: one iteration of the loop over the lines.
SegStep(st, line_raw) ==
    LET line_stripped == Strip(line_raw)
        line_cleaned == CleanText(line_stripped)
        kw == KeywordFlags(line_cleaned)
        is_keyword_line == kw # <<>>
        flagged == [st EXCEPT !.flags = AddFlags(st.flags, kw)]
        line_normalized == NormalizeBullet(line_stripped)
        header == FindHeader(line_normalized)
        section == SectionOf(header)
        item_match == ItemOf(line_normalized)
        item == CleanText(item_match)
    IN  IF line_stripped = <<>> THEN st
        ELSE IF header # <<>>
        THEN [flagged EXCEPT
                !.current_section = section,
                !.data = OpenSection(st.data, section)]
        ELSE IF item_match # <<>>
        THEN IF item # <<>> /\ MayEmit(is_keyword_line)
             THEN [flagged EXCEPT
                     !.data = AppendTo(st.data, st.current_section, item)]
             ELSE flagged
        ELSE IF /\ IsLooseItem(line_cleaned, st.current_section)
                /\ line_cleaned # <<>>
                /\ MayEmit(is_keyword_line)
        THEN [flagged EXCEPT
                !.data = AppendTo(st.data, st.current_section, line_cleaned)]
        ELSE flagged

\* A canonical key that is the section's own key.
CanonicalSectionExact(key) == key

\* Lines 308-311: the canonical key of a section
CanonicalSection(key) ==
    IF Contains(key, <<"c", "e", "r", "c", "a", "n", "i", "a">>) THEN <<"c", "e", "r", "c", "a", "n", "i", "a", "s">>
    ELSE IF Contains(key, <<"p", "l", "a", "n", "t", "a", "_", "b", "a", "j", "a">>) THEN <<"p", "l", "a", "n", "t", "a", "_", "b", "a", "j", "a">>
    ELSE IF Contains(key, <<"p", "l", "a", "n", "t", "a", "_", "a", "l", "t", "a">>) THEN <<"p", "l", "a", "n", "t", "a", "_", "a", "l", "t", "a">>
    ELSE key

known_sections ==
    {<<"c", "e", "r", "c", "a", "n", "i", "a", "s">>, <<"p", "l", "a", "n", "t", "a", "_", "b", "a", "j", "a">>, <<"p", "l", "a", "n", "t", "a", "_", "a", "l", "t", "a">>, <<"e", "q", "u", "i", "p", "a", "m", "i", "e", "n", "t", "o">>}

\* A test that takes every section name for a known one.
IsKnownSectionAlways(normalized_key) == TRUE

\* Line 313: normalized_key in known_sections
IsKnownSection(normalized_key) == normalized_key \in known_sections

\* Lines 306-319: the loop over the sections left after the default bucket
\* was popped; acc holds final_data and the amenities list.
RECURSIVE FoldSections(_, _)
FoldSections(acc, sections) ==
    IF sections = <<>> THEN acc
    ELSE LET key == Head(sections).k
             value == Head(sections).v
             nk == CanonicalSection(key)
             next ==
                 IF value = <<>> THEN acc
                 ELSE IF IsKnownSection(nk)
                 THEN [acc EXCEPT !.final =
                         IF Has(acc.final, nk)
                         THEN Put(acc.final, nk,
                                  VList(Get(acc.final, nk).l \o value))
                         ELSE Put(acc.final, nk, VList(value))]
                 ELSE [acc EXCEPT !.amenities = acc.amenities \o value]
         IN  FoldSections(next, Tail(sections))

\* Lines 298-325: the post-pass and the dict returned.
SegFinal(st) ==
    LET start == IF st.flags # <<>>
                 THEN <<[k |-> <<"c", "a", "r", "a", "c", "t", "e", "r", "i", "s", "t", "i", "c", "a", "s", "_", "a", "d", "i", "c", "i", "o", "n", "a", "l", "e", "s">>,
                         v |-> VMap(st.flags)]>>
                 ELSE <<>>
        amenities0 == IF Has(st.data, DefaultSection)
                      THEN Get(st.data, DefaultSection) ELSE <<>>
        acc == FoldSections([final |-> start, amenities |-> amenities0],
                            Without(st.data, DefaultSection))
    IN  IF acc.amenities # <<>>
        THEN Put(acc.final, DefaultSection,
                 VList(SelectSeq(acc.amenities, LAMBDA a : Len(a) > 2)))
        ELSE acc.final

RECURSIVE SegLoop(_, _)
SegLoop(st, lines) ==
    IF lines = <<>> THEN st ELSE SegLoop(SegStep(st, Head(lines)), Tail(lines))

\* _parse_description_heuristics as a function of the raw description
ParseDescriptionHeuristics(description_raw) ==
    IF description_raw = <<>>
    THEN <<[k |-> DefaultSection, v |-> VList(<<>>)]>>
    ELSE SegFinal(SegLoop(SegStart, DescriptionLines(description_raw)))

\* The lines the descriptions of the model are made of.
SegLines ==
    { <<"*", "P", "r", "e", "c", "i", "o", " ", "a", " ", "t", "r", "a", "t", "a", "r", "*">>,
      <<"P", "r", "e", "c", "i", "o", " ", "n", "e", "g", "o", "c", "i", "a", "b", "l", "e">>,
      <<"-", " ", "A", "l", "b", "e", "r", "c", "a">>,
      <<"C", "e", "r", "c", "a", "n", "i", "a", "s", ":">>,
      <<"E", "q", "u", "i", "p", "a", "m", "i", "e", "n", "t", "o">>,
      <<"a", " ", "5", " ", "m", "i", "n", ".", " ", "d", "e", "l", " ", "m", "a", "r">>,
      <<"N", "o", " ", "p", "a", "g", "a", " ", "m", "a", "n", "t", "e", "n", "i", "m", "i", "e", "n", "t", "o", ".">>,
      <<" ", "P", "l", "a", "n", "t", "a", " ", " ", "A", "l", "t", "a", " ">>,
      <<">", " ", "o", "k">>,
      <<"S", "a", "l", "a", " ", "*", " ", "p", "r", "e", "c", "i", "o", " ", "a", " ", "t", "r", "a", "t", "a", "r", " ", "-", " ", "B", "a", "r">>,
      <<"a", ",", " ", "b", " ", "c", " ", "d", " ", "e", " ", "f", " ", "g", " ", "h", " ", "i", " ", "j", " ", "k", " ", "l", " ", "m", " ", "n", " ", "o">>,
      <<"P", "l", "a", "n", "t", "a", " ", "b", "a", "j", "a", " ", "-", " ", "2", " ", "r", "e", "c">>,
      <<"M", "i", " ", "p", "l", "a", "n", "t", "a", " ", "a", "l", "t", "a">>,
      <<>> }

InitSeg ==
    /\ \E ls \in UNION {[1..n -> SegLines] : n \in 0..MaxLines} :
          sRaw = Join(<<"\n">>, ls)
    /\ sLines = <<>>
    /\ sDone = 0
    /\ sState = SegStart
    /\ sResult = <<>>
    /\ sPhase = "start"

\* Lines 239-249: the early return for an empty description, else the split
\* into lines.
SegSplit ==
    /\ sPhase = "start"
    /\ IF sRaw = <<>>
       THEN /\ sResult' = ParseDescriptionHeuristics(sRaw)
            /\ sPhase' = "returned"
            /\ UNCHANGED sLines
       ELSE /\ sLines' = DescriptionLines(sRaw)
            /\ sPhase' = "lines"
            /\ UNCHANGED sResult
    /\ UNCHANGED <<sRaw, sDone, sState>>
    /\ UNCHANGED notSegVars

\* for line_raw in lines: (one iteration)
SegLine ==
    /\ sPhase = "lines"
    /\ sDone < Len(sLines)
    /\ sState' = SegStep(sState, sLines[sDone + 1])
    /\ sDone' = sDone + 1
    /\ UNCHANGED <<sRaw, sLines, sResult, sPhase>>
    /\ UNCHANGED notSegVars

\* the post-pass and the return
SegReturn ==
    /\ sPhase = "lines"
    /\ sDone = Len(sLines)
    /\ sResult' = SegFinal(sState)
    /\ sPhase' = "returned"
    /\ UNCHANGED <<sRaw, sLines, sDone, sState>>
    /\ UNCHANGED notSegVars

-----------------------------------------------------------------------------
(* parse_property_html: the page, the merge stages *)

\* The bound on the number of items of the summary block.
MaxSummary == 2

\* What content_area.find(...) gives: no tag, or a tag with its text.
NoTag == [present |-> FALSE, s |-> <<>>]
TagText(s) == [present |-> TRUE, s |-> s]

\* The value_text of a summary item: the stripped strings that follow the
\* key span, each with a space after it, up to the first i tag.
RECURSIVE SiblingText(_)
SiblingText(nodes) ==
    IF nodes = <<>> \/ Head(nodes).t = "icon" THEN <<>>
    ELSE (IF Head(nodes).t = "text" THEN Strip(Head(nodes).s) \o <<" ">>
          ELSE <<>>) \o SiblingText(Tail(nodes))

\* Lines 96-114: the loop of _parse_main_summary over the items; an item is
\* its key span (or NoTag) and the nodes after the span.
RECURSIVE ParseMainSummary(_)
ParseMainSummary(items) ==
    IF items = <<>> THEN <<>>
    ELSE LET init == ParseMainSummary(SubSeq(items, 1, Len(items) - 1))
             item == items[Len(items)]
             key == NormalizeKey(CleanText(item.key.s))
             value_text == CleanText(SiblingText(item.rest))
         IN  IF item.key.present
             THEN Put(init, key, ExtractNumber(value_text))
             ELSE init

\* The summary items the pages of the model are made of.
SummaryItems ==
    { [key |-> TagText(<<"T", "e", "r", "r", "e", "n", "o">>), rest |-> <<TextNode(<<" ", "2", "5", "0", " ", "m", "2", " ">>)>>],
      [key |-> TagText(<<"T", "e", "r", "r", "e", "n", "o">>), rest |-> <<IconNode, TextNode(<<"9">>)>>],
      [key |-> TagText(<<"M", "2", " ", " ", "T", "e", "r", "r", "e", "n", "o">>), rest |-> <<BoldNode(<<"1">>), TextNode(<<"3", "0", "0", ".", "5", "0">>)>>],
      [key |-> TagText(<<"A", "n", "o", " ", "d", "e", " ", "c", "o", "n", "s", "t", "r", "u", "c", "c", "i", "o", "n">>), rest |-> <<TextNode(<<"2", "0", " ", "a", "n", "o", "s">>)>>] }

\* The lists of detail cells the pages of the model have.
PageCells ==
    { <<>>,
      << <<TextNode(<<"T", "e", "r", "r", "e", "n", "o", ":">>), BoldNode(<<"2", "6", "0">>)>>,
         <<IconNode, TextNode(<<" ", "A", "l", "b", "e", "r", "c", "a", " ">>)>>,
         <<TextNode(<<"j", "a", "r", "d", "i", "n">>)>> >>,
      << <<TextNode(<<"A", "m", "e", "n", "i", "d", "a", "d", "e", "s", ":">>), BoldNode(<<"a", "l", "b", "e", "r", "c", "a">>)>> >>,
      << <<TextNode(<<"C", "o", "n", "s", "t", "r", "u", "c", "c", "i", "o", "n", ":">>), BoldNode(<<"1", "2", "0", " ", "m", "2">>)>>,
         <<TextNode(<<"M", "2", " ", "c", "o", "n", "s", "t", "r", "u", "c", "c", "i", "o", "n", ":">>), BoldNode(<<"1", "5", "0">>)>>,
         <<TextNode(<<"A", "n", "o", " ", "d", "e", " ", "c", "o", "n", "s", "t", "r", "u", "c", "c", "i", "o", "n", ":">>), BoldNode(<<"2", "0", "1", "0">>)>>,
         <<TextNode(<<"T", "i", "p", "o", ":">>), BoldNode(<<"C", "a", "s", "a">>)>> >>,
      << <<TextNode(<<"E", "q", "u", "i", "p", "a", "m", "i", "e", "n", "t", "o", ":">>), BoldNode(<<"c", "o", "m", "p", "l", "e", "t", "o">>)>>,
         <<TextNode(<<"D", "e", "s", "c", "r", "i", "p", "c", "i", "o", "n", ":">>), BoldNode(<<"x">>)>>,
         <<TextNode(<<"a", "l", "b", "e", "r", "c", "a">>)>>,
         <<TextNode(<<"A", "n", "o", " ", "d", "e", " ", "c", "o", "n", "s", "t", "r", "u", "c", "c", "i", "o", "n", ":">>), BoldNode(<<"1", "5", "0">>)>> >> }

\* The description paragraph and the og:description meta tag of the pages
\* of the model.
PageDescriptions ==
    { [p |-> NoTag, meta |-> NoTag],
      [p |-> TagText(<<>>), meta |-> TagText(<<"S", "a", "l", "a", " ", "-", " ", "a", "l", "b", "e", "r", "c", "a", " ", "-", " ", "J", "a", "r", "d", "i", "n">>)],
      [p |-> TagText(<<"C", "e", "r", "c", "a", "n", "i", "a", "s", ":", "\n", "-", " ", "M", "a", "r", "\n", "\n", "\n", "\n", "E", "q", "u", "i", "p", "a", "m", "i", "e", "n", "t", "o", "\n", "-", " ", "B", "a", "r", " ", "\n", "*", "P", "r", "e", "c", "i", "o", " ", "a", " ", "t", "r", "a", "t", "a", "r", "*">>),
       meta |-> NoTag],
      [p |-> TagText(<<" ", "A", "L", "B", "E", "R", "C", "A", "\t", " ", "g", "r", "a", "n", "d", "e", " ", "\n", "-", " ", "A", "l", "b", "e", "r", "c", "a", "\n", "-", " ", "a", "b">>),
       meta |-> TagText(<<"x">>)],
      [p |-> TagText(<<" ", "\n", "\t">>), meta |-> TagText(<<"y">>)] }

\* The pages of the model.
Pages ==
    [ url : {<<"u">>},
      h1 : {NoTag, TagText(<<" ", "C", "a", "s", "a", " ", " ", "S", "o", "l", " ">>)},
      h5 : {TagText(<<"S", "u", "b">>)},
      h6 : {TagText(<<" ">>)},
      price : {NoTag, TagText(<<"$", "1", ",", "5", "0", "0", " ", "M", "X", "N">>), TagText(<<"U", "S", "D", " ", "9", " ", "(", "M", "X", "N", " ", "1", "7", "0", ")">>)},
      summary : UNION {[1..n -> SummaryItems] : n \in 0..MaxSummary},
      cells : PageCells,
      description : PageDescriptions ]

\* A field that holds a mark when its tag is missing.
TextOrMark(tag) == IF tag.present THEN VStr(CleanText(tag.s)) ELSE VStr(<<"?">>)

\* self._clean_text(tag.text) if tag else None
TextOrNone(tag) == IF tag.present THEN VStr(CleanText(tag.s)) ELSE VNull

\* Lines 333-344: url, titulo, subtitulo, direccion
IdentityFields(pg) ==
    << [k |-> <<"u", "r", "l">>, v |-> VStr(pg.url)],
       [k |-> <<"t", "i", "t", "u", "l", "o">>, v |-> TextOrNone(pg.h1)],
       [k |-> <<"s", "u", "b", "t", "i", "t", "u", "l", "o">>, v |-> TextOrNone(pg.h5)],
       [k |-> <<"d", "i", "r", "e", "c", "c", "i", "o", "n">>, v |-> TextOrNone(pg.h6)] >>

\* Line 351: the currency named by the price text
Currency(price_text) ==
    IF Contains(Lower(price_text), <<"m", "x", "n">>) THEN VStr(<<"M", "X", "N">>)
    ELSE IF Contains(Lower(price_text), <<"u", "s", "d">>) THEN VStr(<<"U", "S", "D">>)
    ELSE VNull

\* Lines 347-351: precio and moneda, written when the price tag exists
PriceFields(data, pg) ==
    IF pg.price.present
    THEN LET price_text == CleanText(pg.price.s)
         IN  Put(Put(data, <<"p", "r", "e", "c", "i", "o">>, ExtractNumber(price_text)),
                 <<"m", "o", "n", "e", "d", "a">>, Currency(price_text))
    ELSE data

\* Lines 358-371: description_raw, <<>> when there is none; the meta tag is
\* read when the paragraph is missing or empty.
DescriptionRaw(pg) ==
    IF pg.description.p.present /\ pg.description.p.s # <<>>
    THEN pg.description.p.s
    ELSE IF pg.description.meta.present THEN pg.description.meta.s
    ELSE <<>>

\* A text left with the line breaks it has.
KeepNewlines(s) == s

\* re.sub(r'\n{3,}', '\n\n', s)
RECURSIVE SqueezeNewlines(_)
SqueezeNewlines(s) ==
    IF s = <<>> THEN <<>>
    ELSE IF Len(s) >= 3 /\ s[1] = "\n" /\ s[2] = "\n" /\ s[3] = "\n"
    THEN SqueezeNewlines(Tail(s))
    ELSE <<Head(s)>> \o SqueezeNewlines(Tail(s))

\* the lines of _clean_description_text, each with its whitespace collapsed
\* and its ends trimmed
CleanedLines(lines) == [i \in 1..Len(lines) |-> Strip(CollapseSpace(lines[i]))]

\* _clean_description_text
CleanDescriptionText(text) ==
    IF text = <<>> THEN <<>>
    ELSE Strip(SqueezeNewlines(Join(<<"\n">>,
                   CleanedLines(SplitLines(RemoveInvisible(text))))))

-----------------------------------------------------------------------------
(* parse_property_html: the consolidation steps *)

\* self.current_year
current_year == 2025

\* bool(v)
Truthy(v) ==
    CASE v.t = "null" -> FALSE
      [] v.t = "num" -> ~(v.n = 0 /\ v.s = <<>>)
      [] v.t = "int" -> v.n # 0
      [] v.t = "str" -> v.s # <<>>
      [] OTHER -> v.l # <<>>

\* can v be iterated, and the elements the iteration yields (the characters
\* of a str, the keys of a dict)
Iterable(v) == v.t \in {"list", "str", "map"}
Elems(v) == IF v.t = "str" THEN [i \in 1..Len(v.s) |-> <<v.s[i]>>] ELSE v.l

\* Lines 384-396: amenities unification.  ok is FALSE when a statement of
\* the block raises (extend on a value that is no list, iteration of a
\* number).
UnifyAmenities(data) ==
    LET all0 == IF Has(data, <<"a", "m", "e", "n", "i", "d", "a", "d", "e", "s", "_", "e", "s", "t", "r", "u", "c", "t", "u", "r", "a", "l", "e", "s">>)
                THEN Get(data, <<"a", "m", "e", "n", "i", "d", "a", "d", "e", "s", "_", "e", "s", "t", "r", "u", "c", "t", "u", "r", "a", "l", "e", "s">>) ELSE VList(<<>>)
        d0 == Without(data, <<"a", "m", "e", "n", "i", "d", "a", "d", "e", "s", "_", "e", "s", "t", "r", "u", "c", "t", "u", "r", "a", "l", "e", "s">>)
        hasExt == Has(d0, <<"a", "m", "e", "n", "i", "d", "a", "d", "e", "s", "_", "e", "x", "t", "r", "a", "i", "d", "a", "s">>)
        ext == IF hasExt THEN Get(d0, <<"a", "m", "e", "n", "i", "d", "a", "d", "e", "s", "_", "e", "x", "t", "r", "a", "i", "d", "a", "s">>) ELSE VList(<<>>)
        d1 == Without(d0, <<"a", "m", "e", "n", "i", "d", "a", "d", "e", "s", "_", "e", "x", "t", "r", "a", "i", "d", "a", "s">>)
        hasEq == Has(d1, <<"e", "q", "u", "i", "p", "a", "m", "i", "e", "n", "t", "o">>) /\ Get(d1, <<"e", "q", "u", "i", "p", "a", "m", "i", "e", "n", "t", "o">>).t = "list"
        eq == IF hasEq THEN Get(d1, <<"e", "q", "u", "i", "p", "a", "m", "i", "e", "n", "t", "o">>) ELSE VList(<<>>)
        d2 == IF hasEq THEN Without(d1, <<"e", "q", "u", "i", "p", "a", "m", "i", "e", "n", "t", "o">>) ELSE d1
        extendOk == (hasExt \/ hasEq) => (all0.t = "list" /\ Iterable(ext))
        all == IF hasExt \/ hasEq
               THEN VList(all0.l \o Elems(ext) \o eq.l) ELSE all0
        iterOk == Truthy(all) => Iterable(all)
        cleaned_amenities ==
            {Capitalize(CleanText(a)) : a \in {x \in Range(Elems(all)) : x # <<>>}}
    IN  IF ~(extendOk /\ iterOk) THEN [ok |-> FALSE, data |-> data]
        ELSE [ok |-> TRUE,
              data |-> IF Truthy(all)
                       THEN Put(d2, <<"a", "m", "e", "n", "i", "d", "a", "d", "e", "s">>,
                                VList(SortedTexts(cleaned_amenities)))
                       ELSE d2]

\* A year inference that knows only the age branch.
CalculateFromAgeOnly(year_or_age) ==
    IF year_or_age.n = 0 /\ year_or_age.s = <<>> THEN VNull
    ELSE IF year_or_age.n < 100
    THEN VInt(IF year_or_age.s = <<>> THEN current_year - year_or_age.n
              ELSE current_year - year_or_age.n - 1)
    ELSE VNull

\* A year inference that takes no year after the reference year.
CalculateUpToReferenceYear(year_or_age, year) ==
    IF year_or_age.t = "null" \/ (year_or_age.n = 0 /\ year_or_age.s = <<>>)
    THEN VNull
    ELSE IF 1900 <= year_or_age.n /\ year_or_age.n < year
    THEN VInt(year_or_age.n)
    ELSE IF 0 <= year_or_age.n /\ year_or_age.n < 100
    THEN VInt(IF year_or_age.s = <<>> THEN year - year_or_age.n
              ELSE year - year_or_age.n - 1)
    ELSE VNull

\* _calculate_construction_year with self.current_year = year.  A negative
\* number -(k + 0.d) is written with n = -k and s = d.
CalculateConstructionYearAt(year_or_age, year) ==
    IF year_or_age.t = "null" \/ (year_or_age.n = 0 /\ year_or_age.s = <<>>)
    THEN VNull
    ELSE IF /\ 1900 <= year_or_age.n
            /\ \/ year_or_age.n < year + 2
               \/ year_or_age.n = year + 2 /\ year_or_age.s = <<>>
    THEN VInt(year_or_age.n)
    ELSE IF 0 <= year_or_age.n /\ year_or_age.n < 100
    THEN VInt(IF year_or_age.s = <<>> THEN year - year_or_age.n
              ELSE year - year_or_age.n - 1)
    ELSE VNull

\* _calculate_construction_year as parse_property_html calls it
CalculateConstructionYear(year_or_age) ==
    CalculateConstructionYearAt(year_or_age, current_year)

\* Lines 399-400, self.current_year being year
InferYearAt(data, year) ==
    IF /\ Has(data, <<"a", "n", "o", "_", "d", "e", "_", "c", "o", "n", "s", "t", "r", "u", "c", "c", "i", "o", "n">>)
       /\ Get(data, <<"a", "n", "o", "_", "d", "e", "_", "c", "o", "n", "s", "t", "r", "u", "c", "c", "i", "o", "n">>).t \in {"num", "int"}
    THEN Put(data, <<"a", "n", "o", "_", "d", "e", "_", "c", "o", "n", "s", "t", "r", "u", "c", "c", "i", "o", "n">>,
             CalculateConstructionYearAt(Get(data, <<"a", "n", "o", "_", "d", "e", "_", "c", "o", "n", "s", "t", "r", "u", "c", "c", "i", "o", "n">>),
                                         year))
    ELSE data

\* A year step that keeps the number it cannot read as a year or an age.
InferYearKeepingRaw(data) ==
    IF /\ Has(data, <<"a", "n", "o", "_", "d", "e", "_", "c", "o", "n", "s", "t", "r", "u", "c", "c", "i", "o", "n">>)
       /\ Get(data, <<"a", "n", "o", "_", "d", "e", "_", "c", "o", "n", "s", "t", "r", "u", "c", "c", "i", "o", "n">>).t \in {"num", "int"}
       /\ CalculateConstructionYear(Get(data, <<"a", "n", "o", "_", "d", "e", "_", "c", "o", "n", "s", "t", "r", "u", "c", "c", "i", "o", "n">>)) # VNull
    THEN Put(data, <<"a", "n", "o", "_", "d", "e", "_", "c", "o", "n", "s", "t", "r", "u", "c", "c", "i", "o", "n">>,
             CalculateConstructionYear(Get(data, <<"a", "n", "o", "_", "d", "e", "_", "c", "o", "n", "s", "t", "r", "u", "c", "c", "i", "o", "n">>)))
    ELSE data

\* Lines 399-400
InferYear(data) ==
    IF /\ Has(data, <<"a", "n", "o", "_", "d", "e", "_", "c", "o", "n", "s", "t", "r", "u", "c", "c", "i", "o", "n">>)
       /\ Get(data, <<"a", "n", "o", "_", "d", "e", "_", "c", "o", "n", "s", "t", "r", "u", "c", "c", "i", "o", "n">>).t \in {"num", "int"}
    THEN Put(data, <<"a", "n", "o", "_", "d", "e", "_", "c", "o", "n", "s", "t", "r", "u", "c", "c", "i", "o", "n">>,
             CalculateConstructionYear(Get(data, <<"a", "n", "o", "_", "d", "e", "_", "c", "o", "n", "s", "t", "r", "u", "c", "c", "i", "o", "n">>)))
    ELSE data

\* Lines 403-408
key_mapping ==
    << [k |-> <<"t", "e", "r", "r", "e", "n", "o">>, v |-> <<"m", "2", "_", "t", "e", "r", "r", "e", "n", "o">>],
       [k |-> <<"c", "o", "n", "s", "t", "r", "u", "c", "c", "i", "o", "n">>, v |-> <<"m", "2", "_", "c", "o", "n", "s", "t", "r", "u", "c", "c", "i", "o", "n">>],
       [k |-> <<"t", "i", "p", "o">>, v |-> <<"t", "i", "p", "o", "_", "p", "r", "o", "p", "i", "e", "d", "a", "d">>],
       [k |-> <<"e", "d", "o", ".", "_", "c", "o", "n", "s", "e", "r", "v", "a", "c", "i", "o", "n">>, v |-> <<"e", "d", "o", "_", "c", "o", "n", "s", "e", "r", "v", "a", "c", "i", "o", "n">>] >>

\* key_mapping.get(k, k)
FinalKey(k) == IF Has(key_mapping, k) THEN Get(key_mapping, k) ELSE k

\* A rename in which the value met last wins.
RenameLastWins(final_data, item) == Put(final_data, FinalKey(item.k), item.v)

\* Lines 411-419: one iteration of the loop over data.items()
RenameStep(final_data, item) ==
    LET final_key == FinalKey(item.k)
    IN  IF Has(final_data, final_key)
        THEN IF item.v # VNull /\ Get(final_data, final_key) = VNull
             THEN Put(final_data, final_key, item.v)
             ELSE final_data
        ELSE Append(final_data, [k |-> final_key, v |-> item.v])

RECURSIVE RenameLoop(_, _)
RenameLoop(final_data, items) ==
    IF items = <<>> THEN final_data
    ELSE RenameLoop(RenameStep(final_data, Head(items)), Tail(items))

\* A return that prunes nothing.
KeepAll(final_data) == final_data

\* Line 422: the fields whose value is not in [None, [], "", {}]
Prune(final_data) ==
    SelectSeq(final_data,
              LAMBDA it : it.v \notin {VNull, VList(<<>>), VStr(<<>>), VMap(<<>>)})

\* Lines 382-422 applied to a dict: amenities unification, year inference,
\* synonym renaming, pruning.
Consolidate(data) ==
    LET u == UnifyAmenities(data)
    IN  IF u.ok
        THEN [ok |-> TRUE, data |-> Prune(RenameLoop(<<>>, InferYear(u.data)))]
        ELSE u

\* Lines 382-422, self.current_year being year
ConsolidateAt(data, year) ==
    LET u == UnifyAmenities(data)
    IN  IF u.ok
        THEN [ok |-> TRUE,
              data |-> Prune(RenameLoop(<<>>, InferYearAt(u.data, year)))]
        ELSE u

\* A store that leaves a description field written by an earlier stage.
StoreDescriptionIfAbsent(data, description_raw) ==
    IF Has(data, <<"d", "e", "s", "c", "r", "i", "p", "c", "i", "o", "n">>) THEN data
    ELSE Put(data, <<"d", "e", "s", "c", "r", "i", "p", "c", "i", "o", "n">>, VStr(CleanDescriptionText(description_raw)))

\* Line 380: data['descripcion'] = self._clean_description_text(...)
StoreDescription(data, description_raw) ==
    Put(data, <<"d", "e", "s", "c", "r", "i", "p", "c", "i", "o", "n">>, VStr(CleanDescriptionText(description_raw)))

\* Lines 333-380: data after the merge stages
MergeStages(pg) ==
    LET a == PriceFields(IdentityFields(pg), pg)
        b == Update(a, ParseMainSummary(pg.summary))
        c == Update(b, ParseDetailsAndFeatures(pg.cells))
        raw == DescriptionRaw(pg)
    IN  IF raw # <<>>
        THEN StoreDescription(Update(c, ParseDescriptionHeuristics(raw)),
                              raw)
        ELSE c

\* parse_property_html as a function of the page: ok is FALSE when it
\* raises, else data is the dict returned
ParsePropertyHtml(pg) == Consolidate(MergeStages(pg))

-----------------------------------------------------------------------------
(* parse_property_html: the steps *)

NoPage ==
    [url |-> <<>>, h1 |-> NoTag, h5 |-> NoTag, h6 |-> NoTag, price |-> NoTag,
     summary |-> <<>>, cells |-> <<>>,
     description |-> [p |-> NoTag, meta |-> NoTag]]

NotConsolidated == [ok |-> TRUE, data |-> <<>>]

InitParse ==
    /\ pPage \in Pages
    /\ pData = <<>>
    /\ pFinal = <<>>
    /\ pIdx = 0
    /\ pRecord = <<>>
    /\ pAgain = NotConsolidated
    /\ pPhase = "identity"

\* Lines 333-344
PIdentity ==
    /\ pPhase = "identity"
    /\ pData' = IdentityFields(pPage)
    /\ pPhase' = "price"
    /\ UNCHANGED <<pPage, pFinal, pIdx, pRecord, pAgain>>
    /\ UNCHANGED notParseVars

\* Lines 347-351
PPrice ==
    /\ pPhase = "price"
    /\ pData' = PriceFields(pData, pPage)
    /\ pPhase' = "summary"
    /\ UNCHANGED <<pPage, pFinal, pIdx, pRecord, pAgain>>
    /\ UNCHANGED notParseVars

\* Line 354: data.update(self._parse_main_summary(content_area))
PSummary ==
    /\ pPhase = "summary"
    /\ pData' = Update(pData, ParseMainSummary(pPage.summary))
    /\ pPhase' = "details"
    /\ UNCHANGED <<pPage, pFinal, pIdx, pRecord, pAgain>>
    /\ UNCHANGED notParseVars

\* Line 355: data.update(self._parse_details_and_features(content_area))
PDetails ==
    /\ pPhase = "details"
    /\ pData' = Update(pData, ParseDetailsAndFeatures(pPage.cells))
    /\ pPhase' = "description"
    /\ UNCHANGED <<pPage, pFinal, pIdx, pRecord, pAgain>>
    /\ UNCHANGED notParseVars

\* Lines 374-376: data.update(self._parse_description_heuristics(...))
PHeuristics ==
    /\ pPhase = "description"
    /\ DescriptionRaw(pPage) # <<>>
    /\ pData' = Update(pData, ParseDescriptionHeuristics(DescriptionRaw(pPage)))
    /\ pPhase' = "store"
    /\ UNCHANGED <<pPage, pFinal, pIdx, pRecord, pAgain>>
    /\ UNCHANGED notParseVars

\* Line 380: data['descripcion'] = self._clean_description_text(...)
PStoreDescription ==
    /\ pPhase = "store"
    /\ pData' = StoreDescription(pData, DescriptionRaw(pPage))
    /\ pPhase' = "amenities"
    /\ UNCHANGED <<pPage, pFinal, pIdx, pRecord, pAgain>>
    /\ UNCHANGED notParseVars

\* Line 374 when there is no description: the block is skipped
PNoDescription ==
    /\ pPhase = "description"
    /\ DescriptionRaw(pPage) = <<>>
    /\ pPhase' = "amenities"
    /\ UNCHANGED <<pPage, pData, pFinal, pIdx, pRecord, pAgain>>
    /\ UNCHANGED notParseVars

\* Lines 384-396
PUnifyAmenities ==
    /\ pPhase = "amenities"
    /\ LET u == UnifyAmenities(pData)
       IN  /\ pData' = u.data
           /\ pPhase' = IF u.ok THEN "year" ELSE "raised"
    /\ UNCHANGED <<pPage, pFinal, pIdx, pRecord, pAgain>>
    /\ UNCHANGED notParseVars

\* Lines 399-410: the year, then final_data = {}
PInferYear ==
    /\ pPhase = "year"
    /\ pData' = InferYear(pData)
    /\ pFinal' = <<>>
    /\ pIdx' = 0
    /\ pPhase' = "rename"
    /\ UNCHANGED <<pPage, pRecord, pAgain>>
    /\ UNCHANGED notParseVars

\* for k, v in data.items(): (one iteration)
PRenameKey ==
    /\ pPhase = "rename"
    /\ pIdx < Len(pData)
    /\ pFinal' = RenameStep(pFinal, pData[pIdx + 1])
    /\ pIdx' = pIdx + 1
    /\ UNCHANGED <<pPage, pData, pRecord, pAgain, pPhase>>
    /\ UNCHANGED notParseVars

\* Line 422: the return
PReturn ==
    /\ pPhase = "rename"
    /\ pIdx = Len(pData)
    /\ pRecord' = Prune(pFinal)
    /\ pPhase' = "returned"
    /\ UNCHANGED <<pPage, pData, pFinal, pIdx, pAgain>>
    /\ UNCHANGED notParseVars

\* The consolidation steps applied once more, to the dict returned.
PReconsolidate ==
    /\ pPhase = "returned"
    /\ pAgain' = Consolidate(pRecord)
    /\ pPhase' = "reconsolidated"
    /\ UNCHANGED <<pPage, pData, pFinal, pIdx, pRecord>>
    /\ UNCHANGED notParseVars

NextParse ==
    \/ PIdentity
    \/ PPrice
    \/ PSummary
    \/ PDetails
    \/ PHeuristics
    \/ PStoreDescription
    \/ PNoDescription
    \/ PUnifyAmenities
    \/ PInferYear
    \/ PRenameKey
    \/ PReturn
    \/ PReconsolidate

-----------------------------------------------------------------------------
(* The helper functions, each applied to one argument *)

\* The largest whole part of the numbers given to
\* _calculate_construction_year.
MaxYearValue == 2030

\* The numbers given to _calculate_construction_year: whole numbers and
\* numbers with a fraction, negative ones, None.
YearArgs ==
    {VNull}
    \cup {VInt(n) : n \in {0, 15}}
    \cup {VNum(n, f) : n \in (-3)..MaxYearValue, f \in {<<>>, <<"5">>, <<"2", "5">>}}

\* The reference years.
YearRefs == {current_year - 1, current_year, current_year + 1}

InitYear ==
    /\ uFn = "year"
    /\ uArg \in YearArgs
    /\ uRef \in YearRefs
    /\ uOut = <<>>
    /\ uPhase = "ready"

\* return value of self._calculate_construction_year(year_or_age)
ApplyYear ==
    /\ uPhase = "ready" /\ uFn = "year"
    /\ uOut' = CalculateConstructionYearAt(uArg, uRef)
    /\ uPhase' = "done"
    /\ UNCHANGED <<uFn, uArg, uRef>>
    /\ UNCHANGED notUtilVars

\* The bound on the length of the texts given to _clean_description_text.
MaxDescLen == 6

\* The characters of those texts: a letter, a space, a tab, a line break, an
\* invisible character.
DescChars == {"a", " ", "\t", "\n", ZWSP}

InitCleanDescription ==
    /\ uFn = "clean_description"
    /\ uArg \in UNION {[1..n -> DescChars] : n \in 0..MaxDescLen}
    /\ uRef = 0
    /\ uOut = <<>>
    /\ uPhase = "ready"

\* return value of self._clean_description_text(text)
ApplyCleanDescription ==
    /\ uPhase = "ready" /\ uFn = "clean_description"
    /\ uOut' = CleanDescriptionText(uArg)
    /\ uPhase' = "done"
    /\ UNCHANGED <<uFn, uArg, uRef>>
    /\ UNCHANGED notUtilVars

\* The bound on the length of the texts given to _extract_number.
MaxNumLen == 5

\* The characters of those texts: digits, a comma, a point, a letter.
NumChars == {"0", "7", ",", ".", "m"}

InitExtractNumber ==
    /\ uFn = "extract_number"
    /\ uArg \in UNION {[1..n -> NumChars] : n \in 0..MaxNumLen}
    /\ uRef = 0
    /\ uOut = <<>>
    /\ uPhase = "ready"

\* return value of self._extract_number(text)
ApplyExtractNumber ==
    /\ uPhase = "ready" /\ uFn = "extract_number"
    /\ uOut' = ExtractNumber(uArg)
    /\ uPhase' = "done"
    /\ UNCHANGED <<uFn, uArg, uRef>>
    /\ UNCHANGED notUtilVars

\* ---- app/utils/money.py: fmt_money

\* str(n) of a natural number
RECURSIVE IntText(_)
IntText(n) ==
    IF n < 10 THEN <<Ascii[48 + n + 1 - 32]>>
    ELSE IntText(n \div 10) \o <<Ascii[48 + (n % 10) + 1 - 32]>>

\* str(amount) of an int, of a float (its digits, ".0" when whole) and of
\* a str
StrOfAmount(amount) ==
    CASE amount.t = "int" -> IntText(amount.n)
      [] amount.t = "num" ->
            IntText(amount.n) \o <<".">> \o (IF amount.s = <<>> THEN <<"0">> ELSE amount.s)
      [] OTHER -> amount.s

\* float(text) of a text [-]digits[.digits]: its sign, whole part and
\* fraction digits; ok is FALSE where float raises ValueError
FloatOf(text) ==
    LET neg == text # <<>> /\ text[1] = "-"
        u == IF neg THEN Tail(text) ELSE text
        w == DigitRun(u, 1)
        rest == SubSeq(u, Len(w) + 1, Len(u))
        f == IF rest # <<>> /\ rest[1] = "." THEN DigitRun(rest, 2) ELSE <<>>
    IN  [ok |-> /\ (w # <<>> \/ f # <<>>)
                /\ (rest = <<>> \/ (rest[1] = "." /\ Len(rest) = 1 + Len(f))),
         neg |-> neg, whole |-> ToInt(w), frac |-> f]

\* f"{n:,}" of a natural number
RECURSIVE Grouped(_)
Grouped(n) ==
    IF n < 1000 THEN IntText(n)
    ELSE LET low == n % 1000
         IN  Grouped(n \div 1000) \o <<",">>
             \o (IF low < 10 THEN <<"0", "0">> ELSE IF low < 100 THEN <<"0">> ELSE <<>>)
             \o IntText(low)

\* "$<n with separators> MXN"
Pesos(neg, n) ==
    <<"$">> \o (IF neg /\ n > 0 THEN <<"-">> ELSE <<>>) \o Grouped(n) \o <<" ", "M", "X", "N">>

\* fmt_money(amount), lines 24-36
fmt_money(amount) ==
    IF amount = VNull THEN Pesos(FALSE, 0)
    ELSE LET x == FloatOf(SelectSeq(StrOfAmount(amount), LAMBDA c : c # ","))
         IN  IF x.ok THEN Pesos(x.neg, x.whole) ELSE Pesos(FALSE, 0)

\* The whole parts and the endings of the amounts of the model.
MoneyWholes == {0, 7, 999, 1000, 1234567, 1500000}
MoneyEndings == {<<>>, <<".">>, <<".", "0">>, <<".", "5">>, <<".", "4", "9">>, <<".", "8", "9">>}

MoneyArgs ==
    {VNull, VStr(<<"a", "b", "c">>), VStr(<<"-", "1", ".", "5">>), VStr(<<"1", ".", "5", ".", "0">>)}
    \cup {VInt(n) : n \in MoneyWholes}
    \cup {VNum(n, f) : n \in MoneyWholes, f \in {<<>>, <<"5">>, <<"8", "9">>}}
    \cup {VStr(IntText(n) \o e) : n \in MoneyWholes, e \in MoneyEndings}
    \cup {VStr(Grouped(n) \o e) : n \in MoneyWholes, e \in MoneyEndings}

InitFmtMoney ==
    /\ uFn = "fmt_money"
    /\ uArg \in MoneyArgs
    /\ uRef = 0
    /\ uOut = <<>>
    /\ uPhase = "ready"

\* return value of fmt_money(amount)
ApplyFmtMoney ==
    /\ uPhase = "ready" /\ uFn = "fmt_money"
    /\ uOut' = fmt_money(uArg)
    /\ uPhase' = "done"
    /\ UNCHANGED <<uFn, uArg, uRef>>
    /\ UNCHANGED notUtilVars

InitUtil ==
    \/ InitYear
    \/ InitCleanDescription
    \/ InitExtractNumber
    \/ InitFmtMoney

NextUtil ==
    \/ ApplyYear
    \/ ApplyCleanDescription
    \/ ApplyExtractNumber
    \/ ApplyFmtMoney

-----------------------------------------------------------------------------
(* run / fetch_and_parse / main *)

\* Bounds of the batch model.
MaxUrls == 3
MaxConcurrency == 2

UrlName(i) == <<"u", i>>
RedirectedUrl == <<"moved">>

NoResult == [kind |-> "none", url |-> <<>>, error |-> "", unit |-> 0]

\* The dict parse_property_html returns for the page of unit i; its "url" is
\* page.url, which a redirect may have changed.
ParsedRecord(i, pageUrl) ==
    [kind |-> "record", url |-> pageUrl, error |-> "", unit |-> i]

\* {"url": url, "error": str(e)}
ErrorRecord(i, url, e) ==
    [kind |-> "error", url |-> url, error |-> e, unit |-> i]

Units == 1..Len(urls)

InitRun ==
    /\ urls \in {[i \in 1..n |-> UrlName(i)] : n \in 1..MaxUrls}
    /\ limit \in 1..MaxConcurrency
    /\ permits = limit
    /\ pc = [i \in 1..Len(urls) |-> "acquire"]
    /\ page = [i \in 1..Len(urls) |-> "none"]
    /\ events = [i \in 1..Len(urls) |->
                   [nav |-> "none", gotos |-> 0, wait |-> FALSE,
                    content |-> "none"]]
    /\ overtook = FALSE
    /\ pending = [i \in 1..Len(urls) |-> NoResult]
    /\ gathered = [i \in 1..Len(urls) |-> NoResult]
    /\ runState = "gathering"
    /\ results = <<>>
    /\ successful = <<>>

\* async with self.semaphore: (entry), taken without waiting for a permit.
AcquireUnguarded(i) ==
    /\ pc[i] = "acquire"
    /\ permits' = permits - 1
    /\ pc' = [pc EXCEPT ![i] = "new_page"]
    /\ UNCHANGED <<urls, limit, page, events, pending, gathered, overtook,
                   runState, results, successful>>
    /\ UNCHANGED notRunVars

\* async with self.semaphore: (entry)
Acquire(i) ==
    /\ pc[i] = "acquire"
    /\ permits > 0
    /\ permits' = permits - 1
    /\ pc' = [pc EXCEPT ![i] = "new_page"]
    /\ UNCHANGED <<urls, limit, page, events, pending, gathered, overtook,
                   runState, results, successful>>
    /\ UNCHANGED notRunVars

\* A gather that keeps the values in the order the units complete.
GatherStoreByCompletion(g, i, r) ==
    LET free == {k \in DOMAIN g : g[k].kind = "none"}
        first == CHOOSE k \in free : \A m \in free : k <= m
    IN  [g EXCEPT ![first] = r]

\* The slot asyncio.gather fills when unit i returns value r: the unit's own
\* position in the argument list.
GatherStore(g, i, r) == [g EXCEPT ![i] = r]

\* A unit leaves fetch_and_parse by returning r: the semaphore is released,
\* and gather keeps r in the unit's slot.
Return(i, r) ==
    /\ permits' = permits + 1
    /\ pc' = [pc EXCEPT ![i] = "returned"]
    /\ gathered' = GatherStore(gathered, i, r)
    /\ overtook' = (overtook \/ \E j \in 1..(i - 1) : pc[j] # "returned")

\* A unit leaves fetch_and_parse by an exception: the semaphore is released,
\* and gather (return_exceptions is not set) raises it into run.
Raise(i) ==
    /\ permits' = permits + 1
    /\ pc' = [pc EXCEPT ![i] = "raised"]
    /\ runState' = IF runState = "gathering" THEN "raised" ELSE runState

\* page = await context.new_page()
NewPageOk(i) ==
    /\ pc[i] = "new_page"
    /\ page' = [page EXCEPT ![i] = "open"]
    /\ pc' = [pc EXCEPT ![i] = "goto"]
    /\ UNCHANGED <<urls, limit, permits, events, pending, gathered, overtook,
                   runState, results, successful>>
    /\ UNCHANGED notRunVars

\* new_page is outside the try block: its exception leaves the unit.
NewPageFail(i) ==
    /\ pc[i] = "new_page"
    /\ Raise(i)
    /\ UNCHANGED <<urls, limit, page, events, pending, gathered, overtook,
                   results, successful>>
    /\ UNCHANGED notRunVars

\* response = await page.goto(url, ...)
GotoOk(i) ==
    /\ pc[i] = "goto"
    /\ events' = [events EXCEPT ![i].nav = "ok", ![i].gotos = @ + 1]
    /\ pc' = [pc EXCEPT ![i] = "wait_header"]
    /\ UNCHANGED <<urls, limit, permits, page, pending, gathered, overtook,
                   runState, results, successful>>
    /\ UNCHANGED notRunVars

\* What the except clause of fetch_and_parse makes of an exception e.
OnException(i, e) == ErrorRecord(i, urls[i], e)

\* A goto that is tried again after its first timeout.
GotoFailRetried(i) ==
    /\ pc[i] = "goto"
    /\ events' = [events EXCEPT ![i].nav = "timeout", ![i].gotos = @ + 1]
    /\ IF events[i].gotos = 0
       THEN UNCHANGED <<pending, pc>>
       ELSE /\ pending' = [pending EXCEPT ![i] = ErrorRecord(i, urls[i], "Timeout")]
            /\ pc' = [pc EXCEPT ![i] = "close"]
    /\ UNCHANGED <<urls, limit, permits, page, gathered, overtook,
                   runState, results, successful>>
    /\ UNCHANGED notRunVars

\* goto raised (navigation timeout): except Exception -> the error record.
GotoFail(i) ==
    /\ pc[i] = "goto"
    /\ events' = [events EXCEPT ![i].nav = "timeout", ![i].gotos = @ + 1]
    /\ pending' = [pending EXCEPT ![i] = OnException(i, "Timeout")]
    /\ pc' = [pc EXCEPT ![i] = "close"]
    /\ UNCHANGED <<urls, limit, permits, page, gathered, overtook,
                   runState, results, successful>>
    /\ UNCHANGED notRunVars

\* await page.wait_for_selector("h1, h6[...]", timeout=8000) inside its own
\* try: a timeout is logged and swallowed.
WaitHeader(i) ==
    /\ pc[i] = "wait_header"
    /\ \E timedOut \in BOOLEAN :
          events' = [events EXCEPT ![i].wait = @ \/ timedOut]
    /\ pc' = [pc EXCEPT ![i] = "wait_desc"]
    /\ UNCHANGED <<urls, limit, permits, page, pending, gathered, overtook,
                   runState, results, successful>>
    /\ UNCHANGED notRunVars

\* await page.wait_for_selector("p[...], div[...]", timeout=5000) inside its
\* own try: a timeout is swallowed (pass).
WaitDescription(i) ==
    /\ pc[i] = "wait_desc"
    /\ \E timedOut \in BOOLEAN :
          events' = [events EXCEPT ![i].wait = @ \/ timedOut]
    /\ pc' = [pc EXCEPT ![i] = "content"]
    /\ UNCHANGED <<urls, limit, permits, page, pending, gathered, overtook,
                   runState, results, successful>>
    /\ UNCHANGED notRunVars

\* html_content = await page.content()
\* data = self.parse_property_html(html_content, page.url); return data
ContentOk(i) ==
    /\ pc[i] = "content"
    /\ events' = [events EXCEPT ![i].content = "ok"]
    /\ \E pageUrl \in {urls[i], RedirectedUrl} :
          pending' = [pending EXCEPT ![i] = ParsedRecord(i, pageUrl)]
    /\ pc' = [pc EXCEPT ![i] = "close"]
    /\ UNCHANGED <<urls, limit, permits, page, gathered, overtook,
                   runState, results, successful>>
    /\ UNCHANGED notRunVars

\* page.content() or parse_property_html raised: except Exception.
ContentFail(i) ==
    /\ pc[i] = "content"
    /\ events' = [events EXCEPT ![i].content = "fail"]
    /\ pending' = [pending EXCEPT ![i] = OnException(i, "ParseError")]
    /\ pc' = [pc EXCEPT ![i] = "close"]
    /\ UNCHANGED <<urls, limit, permits, page, gathered, overtook,
                   runState, results, successful>>
    /\ UNCHANGED notRunVars

\* finally: await page.close(), then the return and the semaphore release.
CloseOk(i) ==
    /\ pc[i] = "close"
    /\ page' = [page EXCEPT ![i] = "closed"]
    /\ Return(i, pending[i])
    /\ UNCHANGED <<urls, limit, events, pending, runState, results,
                   successful>>
    /\ UNCHANGED notRunVars

\* page.close() raised inside finally: the exception replaces the return.
CloseFail(i) ==
    /\ pc[i] = "close"
    /\ Raise(i)
    /\ UNCHANGED <<urls, limit, page, events, pending, gathered, overtook,
                   results, successful>>
    /\ UNCHANGED notRunVars

\* results = await asyncio.gather(*tasks); ...; return results
RunReturn ==
    /\ runState = "gathering"
    /\ \A i \in Units : pc[i] = "returned"
    /\ results' = gathered
    /\ runState' = "returned"
    /\ UNCHANGED <<urls, limit, permits, pc, page, events, pending, gathered,
                   overtook, successful>>
    /\ UNCHANGED notRunVars

\* A filter that only drops empty items.
IsSuccessfulNonEmpty(item) == item.kind # "none"

\* main: `item and 'error' not in item`
IsSuccessful(item) == item.kind # "none" /\ item.kind # "error"

RECURSIVE Filter(_, _)
Filter(s, i) ==
    IF i > Len(s) THEN <<>>
    ELSE (IF IsSuccessful(s[i]) THEN <<s[i]>> ELSE <<>>) \o Filter(s, i + 1)

\* main: successful_data = [item for item in scraped_data if ...]
MainFilter ==
    /\ runState = "returned"
    /\ successful' = Filter(results, 1)
    /\ runState' = "filtered"
    /\ UNCHANGED <<urls, limit, permits, pc, page, events, pending, gathered,
                   overtook, results>>
    /\ UNCHANGED notRunVars

NextRun ==
    \/ \E i \in Units : Acquire(i)
    \/ \E i \in Units : NewPageOk(i)
    \/ \E i \in Units : NewPageFail(i)
    \/ \E i \in Units : GotoOk(i)
    \/ \E i \in Units : GotoFail(i)
    \/ \E i \in Units : WaitHeader(i)
    \/ \E i \in Units : WaitDescription(i)
    \/ \E i \in Units : ContentOk(i)
    \/ \E i \in Units : ContentFail(i)
    \/ \E i \in Units : CloseOk(i)
    \/ \E i \in Units : CloseFail(i)
    \/ RunReturn
    \/ MainFilter

-----------------------------------------------------------------------------
(* parse_property_html called on several workers that share the scraper *)

MaxWorkers == 2

Workers == 1..MaxWorkers

\* __init__(self, concurrency)
NewScraper(concurrency) ==
    [concurrency_limit |-> concurrency, semaphore |-> concurrency,
     current_year |-> current_year]

\* The pages the workers parse: no title, price or description, one summary
\* item, at most one detail cell.
WorkerPages ==
    [ url : {<<"u">>},
      h1 : {NoTag},
      h5 : {TagText(<<"S", "u", "b">>)},
      h6 : {TagText(<<" ">>)},
      price : {NoTag},
      summary : {<<item>> : item \in SummaryItems},
      cells : {c \in PageCells : Len(c) <= 1},
      description : {[p |-> NoTag, meta |-> NoTag]} ]

NotReturned == [ok |-> FALSE, data |-> <<>>]

InitWorkers ==
    /\ scraper \in {NewScraper(c) : c \in 1..MaxConcurrency}
    /\ wPage = [w \in Workers |-> NoPage]
    /\ wData = [w \in Workers |-> <<>>]
    /\ wPc = [w \in Workers |-> "idle"]
    /\ wOut = [w \in Workers |-> NotReturned]

\* parse_property_html(html_content, url) is entered: data = {}
WorkerCall(w) ==
    /\ wPc[w] \in {"idle", "returned"}
    /\ \E pg \in WorkerPages : wPage' = [wPage EXCEPT ![w] = pg]
    /\ wData' = [wData EXCEPT ![w] = <<>>]
    /\ wOut' = [wOut EXCEPT ![w] = NotReturned]
    /\ wPc' = [wPc EXCEPT ![w] = "merge"]
    /\ UNCHANGED scraper
    /\ UNCHANGED notWorkerVars

\* Lines 333-380: the merge stages fill the local dict
WorkerMerge(w) ==
    /\ wPc[w] = "merge"
    /\ wData' = [wData EXCEPT ![w] = MergeStages(wPage[w])]
    /\ wPc' = [wPc EXCEPT ![w] = "consolidate"]
    /\ UNCHANGED <<scraper, wPage, wOut>>
    /\ UNCHANGED notWorkerVars

\* A consolidation that moves the scraper's reference year on.
WorkerConsolidateAdvancingYear(w) ==
    /\ wPc[w] = "consolidate"
    /\ wOut' = [wOut EXCEPT ![w] = ConsolidateAt(wData[w], scraper.current_year)]
    /\ scraper' = [scraper EXCEPT !.current_year = @ + 1]
    /\ wPc' = [wPc EXCEPT ![w] = "returned"]
    /\ UNCHANGED <<wPage, wData>>
    /\ UNCHANGED notWorkerVars

\* Lines 382-422: consolidation, reading self.current_year, and the return
WorkerConsolidate(w) ==
    /\ wPc[w] = "consolidate"
    /\ wOut' = [wOut EXCEPT ![w] = ConsolidateAt(wData[w], scraper.current_year)]
    /\ wPc' = [wPc EXCEPT ![w] = "returned"]
    /\ UNCHANGED <<scraper, wPage, wData>>
    /\ UNCHANGED notWorkerVars

NextWorkers ==
    \/ \E w \in Workers : WorkerCall(w)
    \/ \E w \in Workers : WorkerMerge(w)
    \/ \E w \in Workers : WorkerConsolidate(w)

-----------------------------------------------------------------------------
(* The specifications *)

\* The variables of a component that a specification does not run.
IdleRun ==
    /\ urls = <<>> /\ limit = 0 /\ permits = 0 /\ pc = <<>> /\ page = <<>>
    /\ events = <<>> /\ pending = <<>> /\ gathered = <<>>
    /\ overtook = FALSE /\ runState = "idle" /\ results = <<>>
    /\ successful = <<>>

IdleDetails ==
    /\ dItems = <<>> /\ dDone = 0 /\ dState = DetailsStart
    /\ dResult = <<>> /\ dPhase = "idle"

IdleSeg ==
    /\ sRaw = <<>> /\ sLines = <<>> /\ sDone = 0 /\ sState = SegStart
    /\ sResult = <<>> /\ sPhase = "idle"

IdleParse ==
    /\ pPage = NoPage /\ pData = <<>> /\ pFinal = <<>> /\ pIdx = 0
    /\ pRecord = <<>> /\ pAgain = NotConsolidated /\ pPhase = "idle"

IdleUtil ==
    /\ uFn = "none" /\ uArg = <<>> /\ uRef = 0 /\ uOut = <<>>
    /\ uPhase = "idle"

IdleWorkers ==
    /\ scraper = NewScraper(0) /\ wPage = <<>> /\ wData = <<>>
    /\ wPc = <<>> /\ wOut = <<>>

NextSeg ==
    \/ SegSplit
    \/ SegLine
    \/ SegReturn

NextDetails ==
    \/ DetailCell
    \/ DetailsReturn

InitRunSpec == InitRun /\ IdleDetails /\ IdleSeg /\ IdleParse /\ IdleUtil /\ IdleWorkers
SpecRun == InitRunSpec /\ [][NextRun]_vars

\* What unit i does between acquiring the semaphore and leaving
\* fetch_and_parse: each awaited browser operation returns or raises.
UnitStep(i) ==
    /\ i \in Units
    /\ \/ NewPageOk(i) \/ NewPageFail(i)
       \/ GotoOk(i) \/ GotoFail(i)
       \/ WaitHeader(i) \/ WaitDescription(i)
       \/ ContentOk(i) \/ ContentFail(i)
       \/ CloseOk(i) \/ CloseFail(i)

\* The entry of "async with self.semaphore" for unit i.
UnitAcquire(i) == i \in Units /\ Acquire(i)

\* The scheduling of the event loop: a unit that holds a permit goes on
\* (weak fairness of its steps); asyncio.Semaphore wakes its waiters in
\* first-in first-out order, so a unit that finds a permit free again and
\* again gets one (strong fairness of the acquire); run and main go on when
\* the gather is complete.
RunFairness ==
    /\ \A i \in 1..MaxUrls : WF_vars(UnitStep(i))
    /\ \A i \in 1..MaxUrls : SF_vars(UnitAcquire(i))
    /\ WF_vars(RunReturn)
    /\ WF_vars(MainFilter)

SpecRunFair == InitRunSpec /\ [][NextRun]_vars /\ RunFairness

InitDetailsSpec == InitDetails /\ IdleRun /\ IdleSeg /\ IdleParse /\ IdleUtil /\ IdleWorkers
SpecDetails == InitDetailsSpec /\ [][NextDetails]_vars

InitSegSpec == InitSeg /\ IdleRun /\ IdleDetails /\ IdleParse /\ IdleUtil /\ IdleWorkers
SpecSeg == InitSegSpec /\ [][NextSeg]_vars

InitParseSpec == InitParse /\ IdleRun /\ IdleDetails /\ IdleSeg /\ IdleUtil /\ IdleWorkers
Spec == InitParseSpec /\ [][NextParse]_vars

InitUtilSpec == InitUtil /\ IdleRun /\ IdleDetails /\ IdleSeg /\ IdleParse /\ IdleWorkers
SpecUtil == InitUtilSpec /\ [][NextUtil]_vars

InitWorkersSpec ==
    InitWorkers /\ IdleRun /\ IdleDetails /\ IdleSeg /\ IdleParse /\ IdleUtil
SpecWorkers == InitWorkersSpec /\ [][NextWorkers]_vars

-----------------------------------------------------------------------------
(* Claims about run / fetch_and_parse / main, checked under SpecRun *)

\* The units between acquiring and releasing the semaphore.
Holding == {i \in Units : pc[i] \in {"new_page", "goto", "wait_header",
                                      "wait_desc", "content", "close"}}

\* What unit i returns, from what its browser operations did: the error
\* record exactly when goto, page.content or the parser raised.
Failed(i) == events[i].nav = "timeout" \/ events[i].content = "fail"

\* C7: at every moment the number of fetch_and_parse units between acquiring
\* and releasing the semaphore (the units that can hold an open page) is at
\* most the concurrency limit, and every open page of a unit that has not
\* left belongs to such a unit.
C7_AtMostLimitHoldPage ==
    /\ Cardinality(Holding) <= limit
    /\ Cardinality(Holding) + permits = limit
    /\ \A i \in Units : pc[i] = "acquire" => page[i] = "none"

\* C7 witness: the limit is reached with pages open while another unit waits
\* for a permit.
C7_Witness ==
    /\ limit > 1
    /\ Cardinality({i \in Units : page[i] = "open" /\ i \in Holding}) = limit
    /\ \E i \in Units : pc[i] = "acquire"

\* C8 as stated: when run has returned, every URL that met a navigation
\* timeout or a missing-element condition (a timed-out element wait) has the
\* error record as its result.
C8_TimeoutOrMissingElementGivesError ==
    runState \in {"returned", "filtered"} =>
        \A i \in Units :
            (events[i].nav = "timeout" \/ events[i].wait) =>
                results[i].kind = "error"

\* C8 amended: when run has returned it holds one result per input URL; the
\* result of a URL is the error record {url, error} exactly when its goto,
\* page.content or parse raised, and the parsed record otherwise, also when
\* an element wait timed out; each result depends on the events of its own
\* URL only; and main's successful set is the results without the error
\* records, in order.
C8_FailureIsolatedToItsUrl ==
    /\ runState \in {"returned", "filtered"} =>
          /\ Len(results) = Len(urls)
          /\ \A i \in Units :
                /\ Failed(i) =>
                      /\ results[i].kind = "error"
                      /\ results[i].url = urls[i]
                      /\ results[i].error # ""
                /\ ~Failed(i) =>
                      /\ results[i].kind = "record"
                      /\ results[i].url \in {urls[i], RedirectedUrl}
                /\ results[i].unit = i
    /\ runState = "filtered" =>
          /\ \A k \in 1..Len(successful) : successful[k].kind = "record"
          /\ Len(successful) = Cardinality({i \in Units : ~Failed(i)})
          /\ \A i \in Units : ~Failed(i) =>
                \E k \in 1..Len(successful) : successful[k] = results[i]

\* C8 witness: a batch returned in which one URL failed at navigation,
\* another had an element wait time out and still gave its record, and the
\* filter has run.
C8_Witness ==
    /\ runState = "filtered"
    /\ \E i, j \in Units :
          /\ events[i].nav = "timeout"
          /\ events[j].wait /\ ~Failed(j)
          /\ results[i].kind = "error"
          /\ results[j].kind = "record"
    /\ Len(successful) < Len(results)

\* C9: for any interleaving and completion order, the list run returns has
\* the length of the input list and its i-th element is the value the i-th
\* unit returned.
C9_ResultsPositional ==
    runState \in {"returned", "filtered"} =>
        /\ Len(results) = Len(urls)
        /\ \A i \in Units : results[i] = pending[i] /\ results[i].unit = i

\* C9 witness: run returned although a later unit completed before an
\* earlier one.
C9_Witness ==
    /\ runState = "returned"
    /\ overtook
    /\ Len(urls) > 1

-----------------------------------------------------------------------------
(* Claims about _parse_details_and_features, checked under SpecDetails *)

\* The text the claim gives for the deduplicated fragments u: one fragment
\* unchanged, two joined by " y ", more joined by ", " with " y " before the
\* last.
C10_ClaimedForm(u) ==
    IF Len(u) = 1 THEN u[1]
    ELSE IF Len(u) = 2 THEN u[1] \o <<" ", "y", " ">> \o u[2]
    ELSE Join(<<",", " ">>, SubSeq(u, 1, Len(u) - 1)) \o <<" ", "y", " ">> \o u[Len(u)]

\* descripcion_amenidades without its prefix
C10_Body ==
    LET r == Get(dResult, <<"d", "e", "s", "c", "r", "i", "p", "c", "i", "o", "n", "_", "a", "m", "e", "n", "i", "d", "a", "d", "e", "s">>).s
    IN  Slice(r, Len(NarrativePrefix) + 1, Len(r))

\* C10 as stated: for any fragment texts, descripcion_amenidades is the
\* prefix followed by the deduplicated fragments, a single one unchanged,
\* two joined by " y ", three or more joined by ", " and a final " y ".
C10_NarrativeJoinsFragments ==
    (dPhase = "returned" /\ dState.parts # <<>>) =>
        /\ Has(dResult, <<"d", "e", "s", "c", "r", "i", "p", "c", "i", "o", "n", "_", "a", "m", "e", "n", "i", "d", "a", "d", "e", "s">>)
        /\ Get(dResult, <<"d", "e", "s", "c", "r", "i", "p", "c", "i", "o", "n", "_", "a", "m", "e", "n", "i", "d", "a", "d", "e", "s">>).s
             = NarrativePrefix \o C10_ClaimedForm(Unique(dState.parts))

\* C10 amended: descripcion_amenidades is the prefix followed by the
\* deduplicated fragments (first-seen order) joined by ", ", in which the
\* last occurrence of ", " of the whole joined text is replaced by " y ";
\* this is the claimed form whenever no fragment contains ", " itself, and
\* the field is absent when there is no fragment.
C10_NarrativeReplacesLastComma ==
    dPhase = "returned" =>
        LET u == Unique(dState.parts)
            j == Join(<<",", " ">>, u)
        IN  IF dState.parts = <<>>
            THEN ~Has(dResult, <<"d", "e", "s", "c", "r", "i", "p", "c", "i", "o", "n", "_", "a", "m", "e", "n", "i", "d", "a", "d", "e", "s">>)
            ELSE /\ Has(dResult, <<"d", "e", "s", "c", "r", "i", "p", "c", "i", "o", "n", "_", "a", "m", "e", "n", "i", "d", "a", "d", "e", "s">>)
                 /\ Get(dResult, <<"d", "e", "s", "c", "r", "i", "p", "c", "i", "o", "n", "_", "a", "m", "e", "n", "i", "d", "a", "d", "e", "s">>).t = "str"
                 /\ OccursAt(NarrativePrefix,
                             Get(dResult, <<"d", "e", "s", "c", "r", "i", "p", "c", "i", "o", "n", "_", "a", "m", "e", "n", "i", "d", "a", "d", "e", "s">>).s, 1)
                 /\ \A i, k \in 1..Len(u) : u[i] = u[k] => i = k
                 /\ Range(u) = Range(dState.parts)
                 /\ (\A i \in 1..Len(u) : ~Contains(u[i], <<",", " ">>))
                        => C10_Body = C10_ClaimedForm(u)
                 /\ ~Contains(j, <<",", " ">>) => C10_Body = j
                 /\ Contains(j, <<",", " ">>) =>
                        \E p \in 1..Len(j) :
                            /\ OccursAt(<<",", " ">>, j, p)
                            /\ \A q \in (p + 1)..Len(j) : ~OccursAt(<<",", " ">>, j, q)
                            /\ C10_Body = Slice(j, 1, p - 1) \o <<" ", "y", " ">>
                                          \o Slice(j, p + 2, Len(j))

\* C10 witness: a duplicate fragment was dropped and the last of the
\* remaining fragments contains ", " itself.
C10_Witness ==
    /\ dPhase = "returned"
    /\ Len(Unique(dState.parts)) >= 2
    /\ Len(dState.parts) > Len(Unique(dState.parts))
    /\ Contains(dState.parts[Len(dState.parts)], <<",", " ">>)
    /\ Has(dResult, <<"d", "e", "s", "c", "r", "i", "p", "c", "i", "o", "n", "_", "a", "m", "e", "n", "i", "d", "a", "d", "e", "s">>)

-----------------------------------------------------------------------------
(* Claims about _parse_description_heuristics, checked under SpecSeg *)

\* the lists of the sections open while the loop runs
SectionLists == {sState.data[i].v : i \in 1..Len(sState.data)}

\* the list-valued fields of the dict returned
ReturnedLists ==
    {sResult[i].v.l : i \in {j \in 1..Len(sResult) : sResult[j].v.t = "list"}}

\* the flags of caracteristicas_adicionales in the dict returned
ReturnedFlags ==
    IF Has(sResult, <<"c", "a", "r", "a", "c", "t", "e", "r", "i", "s", "t", "i", "c", "a", "s", "_", "a", "d", "i", "c", "i", "o", "n", "a", "l", "e", "s">>)
    THEN Range(Get(sResult, <<"c", "a", "r", "a", "c", "t", "e", "r", "i", "s", "t", "i", "c", "a", "s", "_", "a", "d", "i", "c", "i", "o", "n", "a", "l", "e", "s">>).l) ELSE {}

\* C6: a line that contains "precio a tratar", "precio negociable" or
\* "no paga mantenimiento" in any letter case, wherever it stands in the
\* description, is never appended to a section list (no entry of any list,
\* while the loop runs or in the dict returned, carries such a phrase), and
\* the dict returned has caracteristicas_adicionales with the flag of every
\* such line set.
C6_KeywordLineNeverEmitted ==
    /\ \A list \in SectionLists \cup ReturnedLists :
          \A i \in 1..Len(list) : KeywordFlags(list[i]) = <<>>
    /\ sPhase = "returned" =>
          \A line \in Range(SplitLines(sRaw)) :
             Range(KeywordFlags(line)) \subseteq ReturnedFlags

\* A returned parse whose description has, after a header line, a keyword
\* line that is not itself a header, with entries emitted around it into the
\* section and the flag set.
C6_Witness ==
    /\ sPhase = "returned"
    /\ \E i \in 2..Len(sLines) :
          /\ KeywordFlags(CleanText(Strip(sLines[i]))) # <<>>
          /\ FindHeader(NormalizeBullet(Strip(sLines[i]))) = <<>>
          /\ FindHeader(NormalizeBullet(Strip(sLines[i - 1]))) # <<>>
    /\ Has(sResult, <<"c", "e", "r", "c", "a", "n", "i", "a", "s">>)
    /\ Get(sResult, <<"c", "e", "r", "c", "a", "n", "i", "a", "s">>).l # <<>>
    /\ <<"n", "o", "_", "p", "a", "g", "a", "_", "m", "a", "n", "t", "e", "n", "i", "m", "i", "e", "n", "t", "o">> \in ReturnedFlags

-----------------------------------------------------------------------------
(* Claims about parse_property_html, checked under Spec *)

EmptyValues == {VNull, VStr(<<>>), VList(<<>>), VMap(<<>>)}

\* C1: whatever the page has or lacks (title, price, summary items, detail
\* cells, description), the record parse_property_html returns has no field
\* whose value is null, the empty string, an empty list or an empty mapping.
C1_NoEmptyField ==
    pPhase \in {"returned", "reconsolidated"} =>
        \A i \in 1..Len(pRecord) : pRecord[i].v \notin EmptyValues

\* A record returned for a page without title, with summary items, detail
\* cells and a description, where final_data held a null and an empty
\* string before the return.
C1_Witness ==
    /\ pPhase = "returned"
    /\ ~pPage.h1.present
    /\ pPage.summary # <<>> /\ pPage.cells # <<>>
    /\ DescriptionRaw(pPage) # <<>>
    /\ \E i \in 1..Len(pFinal) : pFinal[i].v = VNull
    /\ \E i \in 1..Len(pFinal) : pFinal[i].v = VStr(<<>>)
    /\ Len(pRecord) >= 3

\* the statements at which a stage after the first one merges into data
LaterMergeStages == {"price", "summary", "details", "description", "store"}

\* a step of a later stage leaves every non-null field of data as it was
StageOnlyAdds ==
    pPhase \in LaterMergeStages =>
        \A i \in 1..Len(pData) :
           pData[i].v # VNull =>
              /\ Has(pData', pData[i].k)
              /\ Get(pData', pData[i].k) = pData[i].v

\* C2: while the stages merge in order (identity fields, price and
\* currency, summary map, detail map, segmenter output, stored description),
\* a later stage only adds fields: a field that holds a non-null value keeps
\* that value through every later stage.
C2_LaterStagesOnlyAdd == [][StageOnlyAdds]_vars

\* C3: the "amenidades" field of a returned record is a list, in ascending
\* order without two equal entries, each entry single-line-normalized and
\* capitalized.
C3_AmenitiesSortedUniqueCapitalized ==
    (pPhase = "returned" /\ Has(pRecord, <<"a", "m", "e", "n", "i", "d", "a", "d", "e", "s">>)) =>
        LET a == Get(pRecord, <<"a", "m", "e", "n", "i", "d", "a", "d", "e", "s">>)
        IN  /\ a.t = "list"
            /\ \A i \in 1..(Len(a.l) - 1) : StrLess(a.l[i], a.l[i + 1])
            /\ \A i \in 1..Len(a.l) : a.l[i] = Capitalize(CleanText(a.l[i]))

\* the first non-null value among the first n items of data whose key is
\* renamed to final_key, null when there is none
FirstNonNull(final_key, n) ==
    LET idx == {i \in 1..n : FinalKey(pData[i].k) = final_key
                             /\ pData[i].v # VNull}
    IN  IF idx = {} THEN VNull ELSE pData[Min(idx)].v

\* C4: during the synonym renaming, a canonical field holds the first
\* non-null value met in iteration order among the keys renamed to it (so a
\* stored non-null value is never replaced, and a null stored first gives
\* way to the first later non-null value); it is null only when every value
\* met so far is null.
C4_RenameKeepsFirstNonNull ==
    pPhase \in {"rename", "returned", "reconsolidated"} =>
        /\ \A i \in 1..pIdx : Has(pFinal, FinalKey(pData[i].k))
        /\ \A i \in 1..Len(pFinal) :
              pFinal[i].v = FirstNonNull(pFinal[i].k, pIdx)

\* The loop is over a dict in which two keys renamed to one canonical name
\* both hold non-null, different values, and two others hold a null first
\* and a non-null value later.
C4_Witness ==
    /\ pPhase = "rename"
    /\ pIdx = Len(pData)
    /\ \E i, j \in 1..Len(pData) :
          /\ i < j /\ FinalKey(pData[i].k) = FinalKey(pData[j].k)
          /\ pData[i].v # VNull /\ pData[j].v # VNull
          /\ pData[i].v # pData[j].v
    /\ \E i, j \in 1..Len(pData) :
          /\ i < j /\ FinalKey(pData[i].k) = FinalKey(pData[j].k)
          /\ pData[i].v = VNull /\ pData[j].v # VNull

\* C5: the consolidation steps (amenity unification, construction-year
\* inference, synonym renaming, pruning) applied to a record that
\* parse_property_html returned raise nothing and yield the same record:
\* the same keys, in the same order, with the same values.
C5_ReconsolidationIdempotent ==
    pPhase = "reconsolidated" => pAgain = [ok |-> TRUE, data |-> pRecord]

\* A re-consolidated record that has a unified amenities list, a year
\* inferred from an age, a renamed key, and lost fields to the pruning.
C5_Witness ==
    /\ pPhase = "reconsolidated"
    /\ Has(pRecord, <<"a", "m", "e", "n", "i", "d", "a", "d", "e", "s">>)
    /\ Get(pRecord, <<"a", "m", "e", "n", "i", "d", "a", "d", "e", "s">>).t = "list"
    /\ Has(pRecord, <<"a", "n", "o", "_", "d", "e", "_", "c", "o", "n", "s", "t", "r", "u", "c", "c", "i", "o", "n">>)
    /\ Get(pRecord, <<"a", "n", "o", "_", "d", "e", "_", "c", "o", "n", "s", "t", "r", "u", "c", "c", "i", "o", "n">>) = VInt(current_year - 20)
    /\ Has(pRecord, <<"m", "2", "_", "t", "e", "r", "r", "e", "n", "o">>)
    /\ Len(pRecord) < Len(pFinal)

-----------------------------------------------------------------------------
(* Claims about the helper functions, checked under SpecUtil *)

\* v is a number in [1900, year + 2]
IsAbsoluteYear(v, year) ==
    /\ v.t \in {"num", "int"}
    /\ 1900 <= v.n
    /\ v.n < year + 2 \/ (v.n = year + 2 /\ v.s = <<>>)

\* v is a number strictly between 0 and 100
IsAge(v) ==
    /\ v.t \in {"num", "int"}
    /\ 0 <= v.n /\ v.n < 100
    /\ v.n > 0 \/ v.s # <<>>

\* a and b are the same number (an int equals the float of the same value)
SameNumber(a, b) ==
    /\ a.t \in {"num", "int"} /\ b.t \in {"num", "int"}
    /\ a.n = b.n /\ a.s = b.s

\* the fraction digits of 1 - 0.d for fraction digits d without trailing
\* zeros
FractionComplement(d) ==
    [i \in 1..Len(d) |->
        Chr(48 + (IF i = Len(d) THEN 10 ELSE 9) - (Code(d[i]) - 48))]

\* year - v for v strictly between 0 and 100
YearMinus(year, v) ==
    IF v.s = <<>> THEN VNum(year - v.n, <<>>)
    ELSE VNum(year - v.n - 1, FractionComplement(v.s))

YearDone == uPhase = "done" /\ uFn = "year"

\* C11 as stated: with reference year Y the function returns the value
\* itself when it lies in [1900, Y+2], Y minus the value when it lies
\* strictly between 0 and 100, and nothing for every other value.
C11_YearAsStated ==
    YearDone =>
        IF IsAbsoluteYear(uArg, uRef) THEN SameNumber(uOut, uArg)
        ELSE IF IsAge(uArg) THEN SameNumber(uOut, YearMinus(uRef, uArg))
        ELSE uOut = VNull

\* C11: with reference year Y the function returns an int: the whole part
\* of the value when the value lies in [1900, Y+2], the whole part of Y
\* minus the value when the value lies strictly between 0 and 100, and
\* nothing for every other value (0, None, negatives, [100, 1900), above
\* Y+2).  For a value without fraction these are the value itself and Y
\* minus the value (Y = 2025: 15 gives 2010, 1998 gives 1998, 250 nothing).
C11_YearWholePart ==
    YearDone =>
        /\ IF IsAbsoluteYear(uArg, uRef) THEN uOut = VInt(uArg.n)
           ELSE IF IsAge(uArg) THEN uOut = VInt(YearMinus(uRef, uArg).n)
           ELSE uOut = VNull
        /\ (uArg.t # "null" /\ uArg.s = <<>>) =>
              IF IsAbsoluteYear(uArg, uRef) THEN SameNumber(uOut, uArg)
              ELSE IF IsAge(uArg) THEN SameNumber(uOut, YearMinus(uRef, uArg))
              ELSE uOut = VNull
        /\ (uRef = 2025 /\ uArg = VNum(15, <<>>)) => uOut = VInt(2010)
        /\ (uRef = 2025 /\ uArg = VNum(1998, <<>>)) => uOut = VInt(1998)
        /\ (uRef = 2025 /\ uArg = VNum(250, <<>>)) => uOut = VNull

\* The age 15.5 with reference year 2025 gave 2009.
C11_Witness ==
    /\ YearDone
    /\ uRef = 2025
    /\ uArg = VNum(15, <<"5">>)
    /\ uOut = VInt(2009)


\* the indices of S in ascending order
Ascending(S) ==
    [k \in 1..Cardinality(S) |->
        CHOOSE i \in S : Cardinality({j \in S : j < i}) = k - 1]

\* the positions of the lines of a text that hold a visible character
ContentLines(lines) ==
    Ascending({i \in 1..Len(lines) : Strip(RemoveInvisible(lines[i])) # <<>>})

\* a line has no whitespace at its ends and no two whitespace characters
\* in a row
LineIsTidy(line) ==
    /\ line # <<>> => ~IsSpace(line[1]) /\ ~IsSpace(line[Len(line)])
    /\ \A i \in 1..(Len(line) - 1) : ~(IsSpace(line[i]) /\ IsSpace(line[i + 1]))

CleanDescriptionDone == uPhase = "done" /\ uFn = "clean_description"

\* C12: the text _clean_description_text returns has no run of three or
\* more line breaks, no whitespace at its ends, and no line with leading,
\* trailing or repeated horizontal whitespace; the lines of the input that
\* hold something come out in order with the same words, two of them that
\* were one line break apart stay one line break apart, and two that were
\* further apart (only whitespace between) end with exactly one blank line
\* between them.
C12_DescriptionTidy ==
    CleanDescriptionDone =>
        LET inLines == SplitLines(uArg)
            outLines == SplitLines(uOut)
            ins == ContentLines(inLines)
            outs == ContentLines(outLines)
        IN  /\ ~Contains(uOut, <<"\n", "\n", "\n">>)
            /\ uOut # <<>> => ~IsSpace(uOut[1]) /\ ~IsSpace(uOut[Len(uOut)])
            /\ \A i \in 1..Len(outLines) : LineIsTidy(outLines[i])
            /\ ZWSP \notin Range(uOut)
            /\ Len(outs) = Len(ins)
            /\ \A k \in 1..Len(ins) :
                  Words(outLines[outs[k]]) = Words(RemoveInvisible(inLines[ins[k]]))
            /\ \A k \in 1..(Len(ins) - 1) :
                  outs[k + 1] - outs[k] =
                      IF ins[k + 1] - ins[k] = 1 THEN 1 ELSE 2

\* Two lines three line breaks apart, with a space between, came out with
\* one blank line between them.
C12_Witness ==
    /\ CleanDescriptionDone
    /\ uArg = <<"a", "\n", " ", "\n", "\n", "a">>
    /\ uOut = <<"a", "\n", "\n", "a">>


ExtractNumberDone == uPhase = "done" /\ uFn = "extract_number"

\* the number a numeral (digits, then maybe a point and digits) denotes
NumeralValue(whole, frac) == VNum(ToInt(whole), DropTrailingZeros(frac))

\* C13: _extract_number returns nothing exactly when the text is empty or
\* has no digit; otherwise it returns the number denoted by the first
\* numeral of the text without its commas: the digits from the first digit
\* on and, when a point follows them, the digits after the point.
C13_ExtractNumber ==
    ExtractNumberDone =>
        LET t == SelectSeq(uArg, LAMBDA c : c # ",")
            digits == {i \in 1..Len(t) : IsDigit(t[i])}
        IN  /\ uOut = VNull <=> (uArg = <<>> \/ digits = {})
            /\ digits # {} =>
                  \E i \in digits, j \in digits, k \in 0..Len(t) :
                     /\ \A h \in 1..(i - 1) : ~IsDigit(t[h])
                     /\ \A h \in i..j : IsDigit(t[h])
                     /\ j = Len(t) \/ ~IsDigit(t[j + 1])
                     /\ IF j < Len(t) /\ t[j + 1] = "."
                        THEN /\ k >= j + 1
                             /\ \A h \in (j + 2)..k : IsDigit(t[h])
                             /\ k = Len(t) \/ ~IsDigit(t[k + 1])
                        ELSE k = 0
                     /\ uOut = NumeralValue(Slice(t, i, j),
                                   IF k = 0 THEN <<>> ELSE Slice(t, j + 2, k))

\* The text "7,0.7" without its comma starts with the numeral 70.7.
C13_Witness ==
    /\ ExtractNumberDone
    /\ uArg = <<"7", ",", "0", ".", "7">>
    /\ uOut = VNum(70, <<"7">>)

-----------------------------------------------------------------------------
(* Further claims about parse_property_html, checked under Spec *)

\* C14: when the page has a price block, moneda in the record returned is
\* fixed by where "MXN" and "USD" occur in the price text: the one that
\* occurs earliest when both occur, the only one when one occurs, and no
\* field when neither occurs.
C14_MonedaEarliestMatch ==
    (pPhase = "returned" /\ pPage.price.present) =>
        LET low == Lower(CleanText(pPage.price.s))
            mxn == Find(low, <<"m", "x", "n">>)
            usd == Find(low, <<"u", "s", "d">>)
        IN  IF mxn = 0 /\ usd = 0 THEN ~Has(pRecord, <<"m", "o", "n", "e", "d", "a">>)
            ELSE /\ Has(pRecord, <<"m", "o", "n", "e", "d", "a">>)
                 /\ Get(pRecord, <<"m", "o", "n", "e", "d", "a">>) =
                       VStr(IF usd = 0 \/ (mxn > 0 /\ mxn < usd)
                            THEN <<"M", "X", "N">> ELSE <<"U", "S", "D">>)

\* the items of a dict, whatever their order
Items(d) == Range(d)

\* the dict without the fields named in ks
Except(d, ks) == {it \in Items(d) : it.k \notin ks}

\* the page without one of its anchors
WithoutAnchor(pg, anchor) ==
    CASE anchor = "h1" -> [pg EXCEPT !.h1 = NoTag]
      [] anchor = "h5" -> [pg EXCEPT !.h5 = NoTag]
      [] anchor = "h6" -> [pg EXCEPT !.h6 = NoTag]
      [] anchor = "price" -> [pg EXCEPT !.price = NoTag]
      [] anchor = "summary" -> [pg EXCEPT !.summary = <<>>]
      [] OTHER -> [pg EXCEPT !.description.p = NoTag]

\* is the anchor on the page
HasAnchor(pg, anchor) ==
    CASE anchor = "h1" -> pg.h1.present
      [] anchor = "h5" -> pg.h5.present
      [] anchor = "h6" -> pg.h6.present
      [] anchor = "price" -> pg.price.present
      [] anchor = "summary" -> pg.summary # <<>>
      [] OTHER -> pg.description.p.present

Anchors == {"h1", "h5", "h6", "price", "summary", "description"}

\* the fields of the record an anchor stands for: its own field(s), the
\* canonical names of the summary keys, the fields the description stage
\* writes
AnchorFields(pg, anchor) ==
    CASE anchor = "h1" -> {<<"t", "i", "t", "u", "l", "o">>}
      [] anchor = "h5" -> {<<"s", "u", "b", "t", "i", "t", "u", "l", "o">>}
      [] anchor = "h6" -> {<<"d", "i", "r", "e", "c", "c", "i", "o", "n">>}
      [] anchor = "price" -> {<<"p", "r", "e", "c", "i", "o">>, <<"m", "o", "n", "e", "d", "a">>}
      [] anchor = "summary" ->
            {FinalKey(k) : k \in Keys(ParseMainSummary(pg.summary))}
      [] OTHER ->
            {<<"d", "e", "s", "c", "r", "i", "p", "c", "i", "o", "n">>}
            \cup Keys(ParseDescriptionHeuristics(DescriptionRaw(pg)))

\* the fields the page without the anchor still supplies: the keys its
\* stages write, an identity key counted when its tag is there
SuppliedElsewhere(pg, anchor) ==
    LET without == WithoutAnchor(pg, anchor)
        raw == DescriptionRaw(without)
    IN  {FinalKey(k) : k \in
            Keys(ParseMainSummary(without.summary))
            \cup Keys(ParseDetailsAndFeatures(without.cells))
            \cup (IF raw # <<>>
                  THEN Keys(ParseDescriptionHeuristics(raw)) \cup {<<"d", "e", "s", "c", "r", "i", "p", "c", "i", "o", "n">>}
                  ELSE {})
            \cup (IF without.price.present THEN {<<"p", "r", "e", "c", "i", "o">>, <<"m", "o", "n", "e", "d", "a">>} ELSE {})
            \cup (IF without.h1.present THEN {<<"t", "i", "t", "u", "l", "o">>} ELSE {})
            \cup (IF without.h5.present THEN {<<"s", "u", "b", "t", "i", "t", "u", "l", "o">>} ELSE {})
            \cup (IF without.h6.present THEN {<<"d", "i", "r", "e", "c", "c", "i", "o", "n">>} ELSE {})}

-----------------------------------------------------------------------------
(* Further claims about fetch_and_parse, checked under SpecRun *)

\* the positions of a unit after its page.goto
AfterGoto == {"wait_header", "wait_desc", "content", "close", "returned"}

\* C16: each unit calls page.goto at most once, and exactly once when it is
\* past the navigation; a failed navigation ends in the error record with no
\* second goto and no content read; a timeout of an element wait leaves no
\* error record and does not end the unit: the unit goes on to page.content(),
\* and the record parsed from it is the one returned.
C16_OneNavigationWaitsSwallowed ==
    runState # "idle" =>
        \A i \in Units :
           /\ events[i].gotos <= 1
           /\ pc[i] \in AfterGoto => events[i].gotos = 1
           /\ events[i].nav = "timeout" =>
                 /\ events[i].content = "none"
                 /\ pc[i] \in {"close", "returned", "raised"}
                 /\ pending[i] = ErrorRecord(i, urls[i], "Timeout")
           /\ events[i].wait =>
                 /\ events[i].nav = "ok"
                 /\ pc[i] \in {"wait_desc", "content"} => pending[i] = NoResult
                 /\ pc[i] \in {"close", "returned", "raised"} =>
                       events[i].content # "none"
                 /\ events[i].content = "ok" =>
                       /\ pending[i].kind = "record"
                       /\ pc[i] = "returned" => gathered[i] = pending[i]
                 /\ pending[i].kind = "error" => events[i].content = "fail"

\* A unit whose element wait timed out has returned its parsed record, and
\* another unit's navigation failed.
C16_Witness ==
    /\ runState # "idle"
    /\ \E i \in Units :
          /\ events[i].wait /\ pc[i] = "returned"
          /\ gathered[i].kind = "record"
    /\ \E j \in Units :
          /\ events[j].nav = "timeout" /\ pc[j] = "returned"
          /\ gathered[j].kind = "error"

-----------------------------------------------------------------------------
(* Claims about the parser's use of the scraper object, under SpecWorkers *)

\* what every invocation that has returned gave: the record of its page
\* parsed alone with the reference year
EachPageAsAlone ==
    \A w \in Workers :
       wPc[w] = "returned" =>
          wOut[w] = ConsolidateAt(MergeStages(wPage[w]), current_year)

\* C17: no step of parse_property_html changes the scraper object
\* (concurrency_limit, semaphore, current_year), and whatever the workers'
\* invocations before and beside it, an invocation returns the record its
\* page has when parsed alone.
C17_ParserLeavesScraperAlone ==
    /\ []EachPageAsAlone
    /\ [][scraper' = scraper]_vars

\* Two workers have returned the records of different pages, one of them with
\* a construction year computed from an age with the scraper's current_year.
C17_Witness ==
    /\ wPc = [w \in Workers |-> "returned"]
    /\ \E v, w \in Workers :
          /\ wPage[v] # wPage[w]
          /\ wOut[v].ok
          /\ Has(wOut[v].data, <<"a", "n", "o", "_", "d", "e", "_", "c", "o", "n", "s", "t", "r", "u", "c", "c", "i", "o", "n">>)
          /\ Get(wOut[v].data, <<"a", "n", "o", "_", "d", "e", "_", "c", "o", "n", "s", "t", "r", "u", "c", "c", "i", "o", "n">>) = VInt(current_year - 20)

-----------------------------------------------------------------------------
(* Claims about fmt_money, checked under SpecUtil *)

\* the amount fmt_money was applied to is a number that is not negative
MoneyDone ==
    /\ uFn = "fmt_money" /\ uPhase = "done"
    /\ uArg # VNull
    /\ FloatOf(SelectSeq(StrOfAmount(uArg), LAMBDA c : c # ",")).ok
    /\ ~FloatOf(SelectSeq(StrOfAmount(uArg), LAMBDA c : c # ",")).neg

\* C18: fmt_money gives "$n MXN", n written with thousands separators, n
\* being the amount itself when it is whole and else the whole number nearest
\* to it (either neighbour for a fraction of exactly one half):
\* fmt_money("1234567.89") = "$1,234,568 MXN", fmt_money(1500000) =
\* "$1,500,000 MXN".
C18_FmtMoneyNearestPeso ==
    MoneyDone =>
        LET x == FloatOf(SelectSeq(StrOfAmount(uArg), LAMBDA c : c # ","))
            f == DropTrailingZeros(x.frac)
            down == Pesos(FALSE, x.whole)
            up == Pesos(FALSE, x.whole + 1)
        IN  IF f = <<>> \/ ToInt(<<f[1]>>) < 5 THEN uOut = down
            ELSE IF f = <<"5">> THEN uOut \in {down, up}
            ELSE uOut = up

-----------------------------------------------------------------------------
(* Further claims about _parse_details_and_features, under SpecDetails *)

\* the key and value the three rules give for a cell: the bold span's text
\* under the text before it; else the two sides of the first colon; else the
\* bare label, no value
CellByRule(item) ==
    LET b == BoldIndex(item)
        text == CleanText(GetText(item))
        colon == Find(text, <<":">>)
    IN  IF b > 0
        THEN [key |-> Strip(RStripColon(CleanText(
                         StrippedWithSpace(SubSeq(item, 1, b - 1))))),
              value |-> CleanText(item[b].s)]
        ELSE IF colon > 0
        THEN [key |-> CleanText(Slice(text, 1, colon - 1)),
              value |-> CleanText(Slice(text, colon + 1, Len(text)))]
        ELSE [key |-> Strip(Join(<<" ">>, KeyTextParts(item))), value |-> <<>>]

\* C19: every cell the loop has processed gave the key and value of the
\* three rules (a cell with a bold span always the span's text as value), and
\* the bare labels collected are those of the cells without a value.
C19_CellByBoldColonOrLabel ==
    dPhase \in {"cells", "returned"} =>
        /\ \A i \in 1..dDone : ExtractCell(dItems[i]) = CellByRule(dItems[i])
        /\ \A a \in Range(dState.amenities) :
              \E i \in 1..dDone :
                 /\ BoldIndex(dItems[i]) = 0
                 /\ CellByRule(dItems[i]) = [key |-> a, value |-> <<>>]

-----------------------------------------------------------------------------
(* Further claims about _parse_description_heuristics, under SpecSeg *)

\* the line the loop is at, stripped, and cleaned
LineMet == Strip(sLines[sDone + 1])
LineMetCleaned == CleanText(LineMet)

\* does the line start with a bullet character
Bulleted(line) == line # <<>> /\ line[1] \in {"-", BULLET, "*", ">"}

\* the step appends nothing: every list is what it was
NothingAppended ==
    \A k \in Keys(sState.data) :
       Has(sState'.data, k) /\ Get(sState'.data, k) = Get(sState.data, k)

\* the step appends the cleaned line to the list of current_section
LineAppended ==
    sState'.data = AppendTo(sState.data, sState.current_section,
                            LineMetCleaned)

\* C20 as stated, for one step of the loop on a non-bulleted line: under a
\* section other than the default one, a line of fewer than 15 words without
\* a keyword phrase is appended to current_section; under the default
\* section nothing is appended.
LooseLineAsStated ==
    (sPhase = "lines" /\ sDone' = sDone + 1
     /\ LineMet # <<>> /\ ~Bulleted(LineMet)) =>
        IF sState.current_section = DefaultSection THEN NothingAppended
        ELSE (Len(Words(LineMetCleaned)) < 15
              /\ KeywordFlags(LineMetCleaned) = <<>>) => LineAppended

C20_LooseLineAppended == [][LooseLineAsStated]_vars

\* C20 amended, for one step of the loop on a non-bulleted line: a header
\* line switches current_section and is not appended; a line that is not a
\* header is appended to current_section exactly when current_section is not
\* the default one, the line has fewer than 15 words and it contains no
\* keyword phrase; otherwise nothing is appended.
LooseLineUnlessHeader ==
    (sPhase = "lines" /\ sDone' = sDone + 1
     /\ LineMet # <<>> /\ ~Bulleted(LineMet)) =>
        IF FindHeader(LineMet) # <<>>
        THEN /\ NothingAppended
             /\ sState'.current_section = SectionOf(FindHeader(LineMet))
        ELSE /\ sState'.current_section = sState.current_section
             /\ IF /\ sState.current_section # DefaultSection
                   /\ Len(Words(LineMetCleaned)) < 15
                   /\ KeywordFlags(LineMetCleaned) = <<>>
                THEN LineAppended
                ELSE NothingAppended /\ Keys(sState'.data) = Keys(sState.data)

C20_LooseLineUnlessHeader == [][LooseLineUnlessHeader]_vars

\* The loop has met, under a section other than the default one, a short
\* non-bulleted line that is in the section's list and a line of 15 words
\* that is not.
C20_Witness ==
    /\ sPhase = "lines" /\ sDone = Len(sLines)
    /\ sState.current_section # DefaultSection
    /\ \E i, j \in 2..sDone :
          LET short == CleanText(Strip(sLines[i]))
              long == CleanText(Strip(sLines[j]))
              list == Get(sState.data, sState.current_section)
          IN  /\ ~Bulleted(Strip(sLines[i])) /\ FindHeader(Strip(sLines[i])) = <<>>
              /\ Len(Words(short)) < 15 /\ short \in Range(list)
              /\ Len(Words(long)) >= 15 /\ long \notin Range(list)

\* does text begin with name, letter case aside
StartsWithName(text, name) == OccursAt(name, Lower(text), 1)

\* the key the claim gives for a header text: "cercanias" for cercanias /
\* servicios en la zona, "equipamiento" for equipamiento, else the words of
\* the lowercased text joined by underscores
HeaderKey(header_text) ==
    LET h == Strip(RStripColon(header_text))
    IN  IF StartsWithName(h, <<"c", "e", "r", "c", "a", "n", "i", "a", "s">>)
           \/ StartsWithName(h, <<"s", "e", "r", "v", "i", "c", "i", "o", "s", " ", "e", "n", " ", "l", "a", " ", "z", "o", "n", "a">>)
        THEN <<"c", "e", "r", "c", "a", "n", "i", "a", "s">>
        ELSE IF StartsWithName(h, <<"e", "q", "u", "i", "p", "a", "m", "i", "e", "n", "t", "o">>) THEN <<"e", "q", "u", "i", "p", "a", "m", "i", "e", "n", "t", "o">>
        ELSE Join(<<"_">>, Words(Lower(h)))

\* the step of the loop on a header line
HeaderLineStep ==
    (sPhase = "lines" /\ sDone' = sDone + 1
     /\ LineMet # <<>> /\ FindHeader(NormalizeBullet(LineMet)) # <<>>) =>
        LET key == HeaderKey(FindHeader(NormalizeBullet(LineMet)))
        IN  /\ sState'.current_section = key
            /\ Has(sState'.data, key)
            /\ NothingAppended
            /\ Keys(sState'.data) = Keys(sState.data) \cup {key}
            /\ ~Has(sState.data, key) => Get(sState'.data, key) = <<>>

\* C21: a header line makes current_section the mapped key ("cercanias",
\* "equipamiento", else the lowercased underscore-joined header text), a list
\* exists for the key afterwards, every list that existed keeps its items
\* (re-entering a section resets nothing), and the header line is appended to
\* no list.
C21_HeaderSwitchesSection == [][HeaderLineStep]_vars

\* The last line met was a header that re-entered a section whose list has
\* an item.
C21_Witness ==
    /\ sPhase = "lines" /\ sDone >= 3
    /\ FindHeader(NormalizeBullet(Strip(sLines[sDone]))) # <<>>
    /\ sState.current_section =
          HeaderKey(FindHeader(NormalizeBullet(Strip(sLines[sDone]))))
    /\ Get(sState.data, sState.current_section) # <<>>

\* where the claim puts the items of a section: the canonical list of the
\* first of "cercania", "planta_baja", "planta_alta" its key contains, its
\* own list for "equipamiento", else the default bucket
SectionHome(key) ==
    IF Contains(key, <<"c", "e", "r", "c", "a", "n", "i", "a">>) THEN <<"c", "e", "r", "c", "a", "n", "i", "a", "s">>
    ELSE IF Contains(key, <<"p", "l", "a", "n", "t", "a", "_", "b", "a", "j", "a">>) THEN <<"p", "l", "a", "n", "t", "a", "_", "b", "a", "j", "a">>
    ELSE IF Contains(key, <<"p", "l", "a", "n", "t", "a", "_", "a", "l", "t", "a">>) THEN <<"p", "l", "a", "n", "t", "a", "_", "a", "l", "t", "a">>
    ELSE IF key = <<"e", "q", "u", "i", "p", "a", "m", "i", "e", "n", "t", "o">> THEN <<"e", "q", "u", "i", "p", "a", "m", "i", "e", "n", "t", "o">>
    ELSE DefaultSection

\* the items of the sections (the default one aside) whose home is home, in
\* the order the sections were created
RECURSIVE ItemsAtHome(_, _)
ItemsAtHome(sections, home) ==
    IF sections = <<>> THEN <<>>
    ELSE (IF Head(sections).k # DefaultSection
             /\ SectionHome(Head(sections).k) = home
          THEN Head(sections).v ELSE <<>>)
         \o ItemsAtHome(Tail(sections), home)

CellMet == ExtractCell(dItems[dDone + 1])

\* the step of the loop on a valued cell whose key contains "precio"
PriceCellStep ==
    (dPhase = "cells" /\ dDone' = dDone + 1
     /\ CellMet.key # <<>> /\ CellMet.value # <<>>
     /\ Contains(NormalizeKey(CellMet.key), <<"p", "r", "e", "c", "i", "o">>)) =>
        LET kn == NormalizeKey(CellMet.key)
        IN  IF Contains(kn, <<"p", "r", "e", "c", "i", "o", "_", "d", "e", "_", "v", "e", "n", "t", "a">>)
            THEN dState' = [dState EXCEPT
                              !.data = Put(@, <<"o", "p", "e", "r", "a", "c", "i", "o", "n">>, VStr(<<"V", "e", "n", "t", "a">>))]
            ELSE IF Contains(kn, <<"p", "r", "e", "c", "i", "o", "_", "d", "e", "_", "r", "e", "n", "t", "a">>)
            THEN dState' = [dState EXCEPT
                              !.data = Put(@, <<"o", "p", "e", "r", "a", "c", "i", "o", "n">>, VStr(<<"R", "e", "n", "t", "a">>))]
            ELSE dState' = dState

\* no field of the dict, while the loop runs or when it is returned, has a
\* key containing "precio"
NoPriceKey ==
    /\ dPhase \in {"cells", "returned"} =>
          \A k \in Keys(dState.data) : ~Contains(k, <<"p", "r", "e", "c", "i", "o">>)
    /\ dPhase = "returned" =>
          \A k \in Keys(dResult) : ~Contains(k, <<"p", "r", "e", "c", "i", "o">>)

\* C23: the field map of _parse_details_and_features never has a key
\* containing "precio"; a valued cell with a key containing "precio_de_venta"
\* only sets operacion to "Venta", one with "precio_de_renta" only sets
\* operacion to "Renta", one with another key containing "precio" changes
\* nothing.
C23_PriceKeysDropped == []NoPriceKey /\ [][PriceCellStep]_vars

\* The dict returned after a sale-price cell and a price-per-area cell.
C23_Witness ==
    /\ dPhase = "returned"
    /\ Has(dResult, <<"o", "p", "e", "r", "a", "c", "i", "o", "n">>)
    /\ Get(dResult, <<"o", "p", "e", "r", "a", "c", "i", "o", "n">>) = VStr(<<"V", "e", "n", "t", "a">>)
    /\ \E i, j \in 1..dDone :
          /\ Contains(NormalizeKey(ExtractCell(dItems[i]).key), <<"p", "r", "e", "c", "i", "o", "_", "d", "e", "_", "v", "e", "n", "t", "a">>)
          /\ NormalizeKey(ExtractCell(dItems[j]).key) = <<"p", "r", "e", "c", "i", "o", "_", "m", "2">>
          /\ ExtractCell(dItems[j]).value # <<>>

\* the bare-amenity list of the dict returned
BareAmenities ==
    IF Has(dResult, <<"a", "m", "e", "n", "i", "d", "a", "d", "e", "s", "_", "e", "s", "t", "r", "u", "c", "t", "u", "r", "a", "l", "e", "s">>)
    THEN Get(dResult, <<"a", "m", "e", "n", "i", "d", "a", "d", "e", "s", "_", "e", "s", "t", "r", "u", "c", "t", "u", "r", "a", "l", "e", "s">>).l ELSE <<>>

\* C24 as stated: no entry of amenidades_estructurales has a normalized key
\* equal to a key of the dict returned.
C24_NoAmenityIsAKey ==
    dPhase = "returned" =>
        \A a \in Range(BareAmenities) : ~Has(dResult, NormalizeKey(a))

\* C24 amended: no entry of amenidades_estructurales has a normalized key
\* equal to a key of the dict returned other than amenidades_estructurales
\* itself, wherever the valued cell with that key stands; the list is the
\* bare labels in document order without those entries.
C24_NoAmenityIsAnotherKey ==
    dPhase = "returned" =>
        /\ \A a \in Range(BareAmenities) :
              Has(dResult, NormalizeKey(a)) =>
                 NormalizeKey(a) = <<"a", "m", "e", "n", "i", "d", "a", "d", "e", "s", "_", "e", "s", "t", "r", "u", "c", "t", "u", "r", "a", "l", "e", "s">>
        /\ BareAmenities =
              SelectSeq(dState.amenities,
                        LAMBDA a : \/ ~Has(dResult, NormalizeKey(a))
                                   \/ NormalizeKey(a) = <<"a", "m", "e", "n", "i", "d", "a", "d", "e", "s", "_", "e", "s", "t", "r", "u", "c", "t", "u", "r", "a", "l", "e", "s">>)

\* A bare label was dropped for a valued cell that came after it, and the
\* label "Amenidades estructurales" is in the list.
C24_Witness ==
    /\ dPhase = "returned"
    /\ \E i, j \in 1..dDone :
          /\ i < j
          /\ ExtractCell(dItems[i]).value = <<>>
          /\ ExtractCell(dItems[j]).value # <<>>
          /\ NormalizeKey(ExtractCell(dItems[i]).key)
                = NormalizeKey(ExtractCell(dItems[j]).key)
          /\ ExtractCell(dItems[i]).key \in Range(dState.amenities)
          /\ ExtractCell(dItems[i]).key \notin Range(BareAmenities)
    /\ <<"A", "m", "e", "n", "i", "d", "a", "d", "e", "s", " ", "e", "s", "t", "r", "u", "c", "t", "u", "r", "a", "l", "e", "s">> \in Range(BareAmenities)

\* the step of the loop on a line that contains a keyword phrase
KeywordLineOnlyFlags ==
    (sPhase = "lines" /\ sDone' = sDone + 1
     /\ KeywordFlags(LineMetCleaned) # <<>>) =>
        /\ sState'.current_section = sState.current_section
        /\ sState'.data = sState.data

\* C25: a line containing "precio a tratar", "precio negociable" or "no paga
\* mantenimiento" changes only the flags: current_section and every section
\* list are the same after the line as before it.
C25_KeywordLineChangesOnlyFlags == [][KeywordLineOnlyFlags]_vars

\* C27: at every step of the pass over the lines, and when the post-pass is
\* entered, current_section is a key of the accumulator data, so an append
\* always finds its list.
C27_CurrentSectionHasList ==
    sPhase \in {"start", "lines", "returned"} =>
        /\ Has(sState.data, sState.current_section)
        /\ Has(sState.data, DefaultSection)

\* After a header, a keyword line and an item, current_section is a section
\* other than the default one and its list holds the item.
C27_Witness ==
    /\ sPhase = "lines" /\ sDone >= 3
    /\ sState.current_section # DefaultSection
    /\ sState.flags # <<>>
    /\ Get(sState.data, sState.current_section) # <<>>

\* the keys _parse_description_heuristics may return
ReturnableKeys ==
    {<<"c", "a", "r", "a", "c", "t", "e", "r", "i", "s", "t", "i", "c", "a", "s", "_", "a", "d", "i", "c", "i", "o", "n", "a", "l", "e", "s">>, <<"c", "e", "r", "c", "a", "n", "i", "a", "s">>, <<"p", "l", "a", "n", "t", "a", "_", "b", "a", "j", "a">>,
     <<"p", "l", "a", "n", "t", "a", "_", "a", "l", "t", "a">>, <<"e", "q", "u", "i", "p", "a", "m", "i", "e", "n", "t", "o">>, <<"a", "m", "e", "n", "i", "d", "a", "d", "e", "s", "_", "e", "x", "t", "r", "a", "i", "d", "a", "s">>}

\* C28: whatever the header names of the description, the keys of the dict
\* returned by _parse_description_heuristics are among
\* caracteristicas_adicionales, cercanias, planta_baja, planta_alta,
\* equipamiento and amenidades_extraidas.
C28_ReturnedKeysKnown ==
    sPhase = "returned" => Keys(sResult) \subseteq ReturnableKeys

\* The dict returned for a description with a free-text section name that
\* has an item: the item is in amenidades_extraidas.
C28_Witness ==
    /\ sPhase = "returned"
    /\ \E i \in 1..Len(sState.data) :
          /\ sState.data[i].k \notin ReturnableKeys
          /\ SectionHome(sState.data[i].k) = DefaultSection
          /\ \E a \in Range(sState.data[i].v) :
                /\ Has(sResult, DefaultSection)
                /\ a \in Range(Get(sResult, DefaultSection).l)

-----------------------------------------------------------------------------
(* Claims about the progress of run, checked under SpecRunFair *)

\* A unit that has left fetch_and_parse by a return has closed its page, and
\* the permits not held by a unit inside the semaphore are free.
LeftUnitsReleased ==
    /\ \A i \in Units : pc[i] = "returned" => page[i] = "closed"
    /\ Cardinality(Holding) + permits = limit

\* Unit i is past the entry of the semaphore.
HasAcquired(i) == i \in Units => pc[i] # "acquire"

\* run has returned its list and every permit is free.
RunReturnedAllFree ==
    runState \in {"returned", "filtered"} /\ permits = limit

\* C26: when every browser operation returns or raises, every unit releases
\* its permit and closes its page on leaving, every URL eventually acquires a
\* permit, and run eventually returns with all permits free.
C26_RunEventuallyReturns ==
    /\ []LeftUnitsReleased
    /\ \A i \in 1..MaxUrls : <>HasAcquired(i)
    /\ <>RunReturnedAllFree

-----------------------------------------------------------------------------
(* Claims about the year and the description of the record, under Spec *)

\* the number v is neither in [1900, current_year + 2] nor in (0, 100)
OutsideYearAndAge(v) ==
    /\ v.t \in {"num", "int"}
    /\ v.n >= 100
    /\ \/ v.n < 1900
       \/ v.n > current_year + 2
       \/ v.n = current_year + 2 /\ v.t = "num" /\ v.s # <<>>

\* the value the merge stages leave under the year key, VNull when none
SourceYear ==
    LET src == MergeStages(pPage)
    IN  IF Has(src, <<"a", "n", "o", "_", "d", "e", "_", "c", "o", "n", "s", "t", "r", "u", "c", "c", "i", "o", "n">>)
        THEN Get(src, <<"a", "n", "o", "_", "d", "e", "_", "c", "o", "n", "s", "t", "r", "u", "c", "c", "i", "o", "n">>) ELSE VNull

\* C29: in every record returned by parse_property_html a numeric
\* ano_de_construccion is an integer year in [1900, current_year + 2], and a
\* numeric source value outside both the year range and the age range
\* (0, 100) leaves the field absent.
C29_YearFieldInRange ==
    pPhase \in {"returned", "reconsolidated"} =>
        /\ (/\ Has(pRecord, <<"a", "n", "o", "_", "d", "e", "_", "c", "o", "n", "s", "t", "r", "u", "c", "c", "i", "o", "n">>)
            /\ Get(pRecord, <<"a", "n", "o", "_", "d", "e", "_", "c", "o", "n", "s", "t", "r", "u", "c", "c", "i", "o", "n">>).t \in {"num", "int"}) =>
               /\ Get(pRecord, <<"a", "n", "o", "_", "d", "e", "_", "c", "o", "n", "s", "t", "r", "u", "c", "c", "i", "o", "n">>).t = "int"
               /\ Get(pRecord, <<"a", "n", "o", "_", "d", "e", "_", "c", "o", "n", "s", "t", "r", "u", "c", "c", "i", "o", "n">>).n >= 1900
               /\ Get(pRecord, <<"a", "n", "o", "_", "d", "e", "_", "c", "o", "n", "s", "t", "r", "u", "c", "c", "i", "o", "n">>).n <= current_year + 2
        /\ OutsideYearAndAge(SourceYear) =>
               ~Has(pRecord, <<"a", "n", "o", "_", "d", "e", "_", "c", "o", "n", "s", "t", "r", "u", "c", "c", "i", "o", "n">>)

\* A record returned for a page whose year cell reads 150, a number that
\* is neither a year nor an age, although the summary gave an age: the
\* record has no year field.
C29_Witness ==
    /\ pPhase = "returned"
    /\ SourceYear = VNum(150, <<>>)
    /\ \E i \in 1..Len(pPage.summary) :
          pPage.summary[i].key.s = <<"A", "n", "o", " ", "d", "e", " ", "c", "o", "n", "s", "t", "r", "u", "c", "c", "i", "o", "n">>
    /\ ~Has(pRecord, <<"a", "n", "o", "_", "d", "e", "_", "c", "o", "n", "s", "t", "r", "u", "c", "c", "i", "o", "n">>)

\* the segmenter's output for raw is in data: every key it returns holds
\* the value it returns
HeuristicsMerged(data, raw) ==
    LET h == ParseDescriptionHeuristics(raw)
    IN  \A i \in 1..Len(h) : Has(data, h[i].k) /\ Get(data, h[i].k) = h[i].v

\* the description field of the record is the cleaned raw text, and it is
\* absent when the cleaned text is empty
DescriptionIsCleanedRaw ==
    LET cleaned == CleanDescriptionText(DescriptionRaw(pPage))
    IN  IF cleaned = <<>>
        THEN ~Has(pRecord, <<"d", "e", "s", "c", "r", "i", "p", "c", "i", "o", "n">>)
        ELSE /\ Has(pRecord, <<"d", "e", "s", "c", "r", "i", "p", "c", "i", "o", "n">>)
             /\ Get(pRecord, <<"d", "e", "s", "c", "r", "i", "p", "c", "i", "o", "n">>) = VStr(cleaned)

\* C30: when the page has a non-empty description text, the descripcion
\* field of the record returned is _clean_description_text of that raw text,
\* or is absent when the cleaned text is empty, whatever a summary item, a
\* detail cell or the segmenter wrote under that name; and when the field is
\* about to be stored the segmenter's output for the raw text is already
\* merged.
C30_DescriptionFromRawText ==
    /\ (pPhase \in {"returned", "reconsolidated"}
        /\ DescriptionRaw(pPage) # <<>>) => DescriptionIsCleanedRaw
    /\ pPhase = "store" =>
          /\ DescriptionRaw(pPage) # <<>>
          /\ HeuristicsMerged(pData, DescriptionRaw(pPage))

\* A record returned for a page that has a detail cell "Descripcion: x" and a
\* description paragraph with sections: the field is the cleaned paragraph
\* and the sections of the segmenter are in the record.
C30_Witness ==
    /\ pPhase = "returned"
    /\ \E i \in 1..Len(pPage.cells) :
          pPage.cells[i] = <<TextNode(<<"D", "e", "s", "c", "r", "i", "p", "c", "i", "o", "n", ":">>), BoldNode(<<"x">>)>>
    /\ pPage.description.p.present
    /\ Has(pRecord, <<"c", "e", "r", "c", "a", "n", "i", "a", "s">>)
    /\ Has(pRecord, <<"d", "e", "s", "c", "r", "i", "p", "c", "i", "o", "n">>)
    /\ Get(pRecord, <<"d", "e", "s", "c", "r", "i", "p", "c", "i", "o", "n">>) # VStr(<<"x">>)
    /\ Get(pRecord, <<"d", "e", "s", "c", "r", "i", "p", "c", "i", "o", "n">>)
          = VStr(CleanDescriptionText(pPage.description.p.s))
    /\ CleanDescriptionText(pPage.description.p.s) # pPage.description.p.s

\* A record returned for a page whose description paragraph holds only
\* white space, with the same detail cell: the record has no description.
C30_WitnessEmptied ==
    /\ pPhase = "returned"
    /\ \E i \in 1..Len(pPage.cells) :
          pPage.cells[i] = <<TextNode(<<"D", "e", "s", "c", "r", "i", "p", "c", "i", "o", "n", ":">>), BoldNode(<<"x">>)>>
    /\ DescriptionRaw(pPage) # <<>>
    /\ CleanDescriptionText(DescriptionRaw(pPage)) = <<>>
    /\ ~Has(pRecord, <<"d", "e", "s", "c", "r", "i", "p", "c", "i", "o", "n">>)

====
